---- MODULE Spec2Model ----
(***************************************************************************)
(* State synchronisation between one authoritative (background) context    *)
(* and the peripheral contexts of wxt-zustand: the readiness cache, the    *)
(* initial-state fetcher, the bidirectional sync controller, the backend   *)
(* service and its persistence through the watched storage.                *)
(*                                                                         *)
(* A store state is a function from key names to values; a value is a      *)
(* record [fn, v]: fn says whether the member is callable (typeof val ===  *)
(* 'function'), v identifies the number or the closure.                    *)
(***************************************************************************)
EXTENDS Integers, Sequences, FiniteSets, TLC

\* ------------------------------------------------------------------ bounds
MaxMut == 2        \* application-made state transitions, all contexts together
MaxCalls == 2      \* calls of each readiness entry point
MaxFaults == 1     \* failed dispatch calls and failed storage writes together
MaxCleanups == 2   \* cleanup() calls per session
MaxEnvelopes == 2  \* dispatch calls made with an envelope of the caller's own
MaxBroadcasts == 2 \* broadcastStateChange calls made by code of the authority
MaxLoads == 2      \* loads of the persisted state
MaxUnregs == 2     \* unregisterStore calls
MaxForeign == 1    \* writes of the storage key by code outside the library

\* ------------------------------------------------------- program constants
MaxRetries == 5    \* opts.retries ?? 5 of connectAndFetchInitialState
BaseMs == 50       \* opts.baseMs ?? 50 of connectAndFetchInitialState
SaveRetries == 3   \* opts?.retries ?? 3 of saveWithBackoff

SYNC == "__WXT_ZUSTAND_SYNC__"

Periph == {"p1", "p2"}
None == [none |-> TRUE]

\* a readiness entry, a fetch and a session belong to a (store, name) pair. The
\* two contexts use one name each, so the context stands for its pair; OtherName
\* is the pair of p1's store and a second name
OtherName == "p1/other"
Names == {"p1", OtherName}
StoreOf(e) == IF e = OtherName THEN "p1" ELSE e

\* ------------------------------------------------------------------ values
Num(n) == [fn |-> FALSE, v |-> n]
Fn(id) == [fn |-> TRUE, v |-> id]
IsFn(val) == val.fn

\* closures of the contexts: 0 is the authority's, 1 and 2 the peripherals'
FnIdOf(p) == IF p = "p1" THEN 1 ELSE 2

\* the data every store starts with, and the data application code moves a
\* store to: two keys, or one key only
Snap0 == [a |-> Num(0), b |-> Num(0)]
SnapX == [a |-> Num(1), b |-> Num(1)]
SnapY == [a |-> Num(2)]
Snapshots == {SnapX, SnapY}
\* a state whose data has a key named like a function member of the stores
SnapF == [a |-> Num(3), f |-> Num(3)]

FnKeysOf(s) == {k \in DOMAIN s : IsFn(s[k])}
DataKeysOf(s) == {k \in DOMAIN s : ~IsFn(s[k])}

\* stripFunctionProps: a shallow copy without the function-valued members
StripNothing(state) == state
stripFunctionProps(state) ==
    [k \in {key \in DOMAIN state : ~IsFn(state[key])} |-> state[k]]

\* values a field can hold besides numbers and functions: undefined, null,
\* NaN, and a nested object (known by its reference)
Undefined == [fn |-> FALSE, undef |-> TRUE]
Null == [fn |-> FALSE, null |-> TRUE]
NaN == [fn |-> FALSE, nan |-> TRUE]
Ref(n) == [fn |-> FALSE, ref |-> n]

\* what a caller can hand over in place of a state object: a payload that
\* cannot be read back (text that does not parse, a value a migration
\* rejects), and a value that is not an object (a number, a string)
Corrupt == [corrupt |-> TRUE]
NonObject == [scalar |-> TRUE]
IsStateObject(value) == value \notin {None, Corrupt, NonObject}

\* isValidState: typeof value === 'object' && value !== null
isValidState(value) == value \notin {None, Null, NonObject}

\* { ...value }: the own members of an object, nothing for null or a number
Spread(value) == IF isValidState(value) THEN value ELSE [k \in {} |-> None]

\* mergeStatePreservingFunctions: { ...next }, then every function-valued
\* member of current written over it
MergeReplacing(current, next) == next
MergeFieldwise(current, next) ==
    [k \in DOMAIN current \cup DOMAIN next |->
        IF k \in DOMAIN next /\ ~(k \in DOMAIN current /\ IsFn(current[k]))
        THEN next[k] ELSE current[k]]
mergeStatePreservingFunctions(current, next) ==
    [k \in DOMAIN Spread(next) \cup FnKeysOf(current) |->
        IF k \in FnKeysOf(current) THEN current[k] ELSE next[k]]

\* JSON.stringify followed by JSON.parse: function-valued members are left
\* out of the text, everything else of a flat record of numbers comes back
JsonRoundTrip(state) ==
    [k \in {key \in DOMAIN state : ~IsFn(state[key])} |-> state[k]]

\* obj[key]: undefined for a key the object does not have
Get(obj, key) == IF key \in DOMAIN obj THEN obj[key] ELSE Undefined

\* x === y: the same value, except that NaN is not equal to itself
SameValue(x, y) == x = y
StrictEquals(x, y) == x = y /\ x # NaN

\* Object.keys(obj): the keys of the object in the order they were added; the
\* objects of this model are all built in the order a, b, f
KeyOrder == <<"a", "b", "f">>
KeyPos(key) == CHOOSE i \in 1..Len(KeyOrder) : KeyOrder[i] = key
ObjectKeys(obj) == SelectSeq(KeyOrder, LAMBDA key : key \in DOMAIN obj)

\* the first loop of shallowDiff: an update, carrying the new value, for every
\* key of newObj whose value is not strictly equal to oldObj[key]
UpdatedChanges(oldObj, newObj) ==
    LET keys == SelectSeq(ObjectKeys(newObj),
                    LAMBDA key : ~StrictEquals(Get(oldObj, key), newObj[key]))
    IN  [i \in 1..Len(keys) |->
            [change |-> "updated", key |-> keys[i], value |-> newObj[keys[i]]]]

\* the second loop: a removal for every key of oldObj that is not an own key
\* of newObj
RemovedChanges(oldObj, newObj) ==
    LET keys == SelectSeq(ObjectKeys(oldObj),
                    LAMBDA key : key \notin DOMAIN newObj)
    IN  [i \in 1..Len(keys) |->
            [change |-> "removed", key |-> keys[i], value |-> Undefined]]

\* shallowDiff raises unless both arguments are state objects
shallowDiffThrows(oldObj, newObj) ==
    ~isValidState(oldObj) \/ ~isValidState(newObj)

\* shallowDiff(oldObj, newObj): the list of changes, the updates followed by
\* the removals
RemovedFirst(oldObj, newObj) ==
    RemovedChanges(oldObj, newObj) \o UpdatedChanges(oldObj, newObj)
shallowDiff(oldObj, newObj) ==
    UpdatedChanges(oldObj, newObj) \o RemovedChanges(oldObj, newObj)

\* shallowPatch(obj, difference): a copy of obj to which the changes are
\* applied in order, an update setting its key and a removal deleting it
RECURSIVE shallowPatch(_, _)
shallowPatch(obj, difference) ==
    IF difference = <<>> THEN obj
    ELSE LET c == Head(difference)
             applied ==
                 IF c.change = "updated"
                 THEN [k \in DOMAIN obj \cup {c.key} |->
                          IF k = c.key THEN c.value ELSE obj[k]]
                 ELSE IF c.change = "removed"
                 THEN [k \in DOMAIN obj \ {c.key} |-> obj[k]]
                 ELSE obj
         IN  shallowPatch(applied, Tail(difference))

\* ------------------------------------------------------------------- state
VARIABLES
    \* authoritative context (part_009)
    canon,        \* state of the canonical store
    registered,   \* the proxy service of the store name is registered
    clients,      \* connectedClients.get(storeName)
    stored,       \* value under the storage key, None when nothing is stored
    backups,      \* the entries under the backup keys of the storage key
    boot,         \* initWXTZustandStoreBackend: its position and what it holds
    registry,     \* storeRegistry, storageWatchers, the service's subscription
    diffIn,       \* the two objects the diff utilities are called with
    diffOut,      \* what they returned, None before the call
    writeQ,       \* storage.setItem calls issued and not yet completed, in order
    \* peripheral contexts
    local,        \* state of the peripheral's store
    readiness,    \* readinessRegistry entry of (store, name)
    conn,         \* connectAndFetchInitialState of the entry: position and attempt
    awaiting,     \* wxtZustandStoreReady calls suspended at their await
    sess,         \* the sync session attached to the store
    inbox,        \* storage-watch notifications on their way to the context
    dispatchQ,    \* dispatch calls on their way to the authority
    reloadCalled, \* reloadPageOnInvalidation() was called in the context
    \* observation of the run
    obs           \* counters and records of what the operations did

authVars == <<canon, registered, clients, stored, writeQ, backups, boot, registry>>
periVars == <<local, readiness, conn, awaiting, sess, inbox, dispatchQ, reloadCalled>>
utilVars == <<diffIn, diffOut>>
vars == <<canon, registered, clients, stored, writeQ, backups, boot, registry, local,
          readiness, conn, awaiting, sess, inbox, dispatchQ, reloadCalled, obs,
          diffIn, diffOut>>

\* a session: whether it exists, its Push listener is in the store's listener
\* set, its watcher is registered, its cleaned flag is set, the application
\* holds its handles; and how often cleanup() invoked its two detach handles
NoSession == [exists |-> FALSE, pushOn |-> FALSE, watchOn |-> FALSE,
              cleaned |-> FALSE, handle |-> FALSE, unsubs |-> 0, unwatches |-> 0,
              orphans |-> 0]
\* initWXTZustandStoreBackend has not been called (code that registers the
\* service itself never calls it)
\* no call of the diff utilities is under way
NoDiff == [old |-> None, new |-> None]
NotBooted == [pc |-> "idle", current |-> None, options |-> None]
\* the registries of the authority: whether the store name has an entry in
\* storeRegistry and connectedClients (registerStore adds both, unregisterStore
\* deletes both), whether the service's store.subscribe callback is attached,
\* the same entries of a second store name, the names that have an entry in
\* storageWatchers and the unwatch calls made; reg tells whether the service
\* is registered
InitRegistry(reg) ==
    [store |-> reg, listening |-> reg,
     other |-> [store |-> FALSE, clients |-> {}],
     watchers |-> {}, unwatched |-> 0]
NoEntry == [st |-> "none", by |-> "none", err |-> None]
Idle == [st |-> "idle", attempt |-> 0, val |-> None]

InitLocal(p) ==
    IF p = "p1" THEN [a |-> Num(0), b |-> Num(0), f |-> Fn(FnIdOf(p))]
    ELSE Snap0
InitCanon == [a |-> Num(0), b |-> Num(0), f |-> Fn(0)]

InitObsOf(E) ==
    [ nMut       |-> 0,                 \* application transitions so far
      faults     |-> 0,                 \* failed dispatches and writes so far
      nReady     |-> [p \in E |-> 0],   \* wxtZustandStoreReady calls
      nSyncInit  |-> [p \in E |-> 0],   \* syncInitialStateFromBackground calls
      nConnect   |-> [p \in E |-> 0],   \* connectAndFetchInitialState started
      nSetup     |-> [p \in E |-> 0],   \* setupBidirectionalSync called by ready
      nDispatch  |-> [p \in E |-> 0],   \* service.dispatch called by the Push path
      okReturns  |-> [p \in E |-> 0],   \* wxtZustandStoreReady calls resolved
      thrown     |-> [p \in E |-> {}],  \* errors wxtZustandStoreReady calls failed with
      initSnap   |-> [p \in E |-> None],\* initial snapshot the entry's fetch returned
      servedAt   |-> [p \in E |-> None],\* what the canonical store last was when it was served
      cleanups   |-> [p \in E |-> 0],   \* cleanup() calls
      handleCalls |-> [p \in E |-> 0],  \* calls of the returned unsubscribeLocal
      nPull      |-> [p \in E |-> 0],   \* remote values the Pull path applied
      fetchErrs  |-> [p \in E |-> <<>>],\* errors of the failed fetchInitialState calls
      waits      |-> [p \in E |-> <<>>],\* backoff delays the fetcher waited, in ms
      reloads    |-> [p \in E |-> 0],   \* reloadPageOnInvalidation() calls
      dispatchErrs |-> [p \in E |-> <<>>], \* errors the Push path's dispatch calls failed with
      applied    |-> <<>>,              \* states of the valid dispatches applied, in order
      nSent      |-> 0,                 \* dispatch calls made with an envelope of the caller's own
      nRet       |-> 0,                 \* dispatch calls of the service that have ended
      lastRet    |-> None,              \* how the last of them ended
      nThrown    |-> 0,                 \* setState calls of dispatch that threw
      nBroadcast |-> 0,                 \* broadcastStateChange calls made by code of the authority
      lastCall   |-> None,              \* the arguments of the last of them
      lastSave   |-> None,              \* how the last broadcastStateChange that wrote ended
      nLoad      |-> 0,                 \* loads of the persisted state so far
      lastLoad   |-> None,              \* the last loadStateFromVersionedItem call
      lastInit   |-> None,              \* how initWXTZustandStoreBackend ended
      nForeign   |-> 0,                 \* writes of the storage key by other code
      nUnreg     |-> 0,                 \* unregisterStore calls so far
      lastUnreg  |-> None,              \* the last of them: its name, and the
                                        \* transitions and the clients before it
      canonOp    |-> "init" ]           \* what made the last canonical transition
InitObs == InitObsOf(Periph)

Init ==
    /\ canon = InitCanon
    /\ registered = FALSE
    /\ clients = {}
    /\ stored = None
    /\ backups = {}
    /\ boot = NotBooted
    /\ registry = InitRegistry(registered)
    /\ diffIn = NoDiff
    /\ diffOut = None
    /\ writeQ = <<>>
    /\ local = [p \in Periph |-> InitLocal(p)]
    /\ readiness = [p \in Periph |-> NoEntry]
    /\ conn = [p \in Periph |-> Idle]
    /\ awaiting = [p \in Periph |-> 0]
    /\ sess = [p \in Periph |-> NoSession]
    /\ inbox = [p \in Periph |-> <<>>]
    /\ dispatchQ = [p \in Periph |-> <<>>]
    /\ reloadCalled = [p \in Periph |-> FALSE]
    /\ obs = InitObs

Bump(f, p) == [f EXCEPT ![p] = @ + 1]

\* the callbacks attached for a name: those of the session s itself, and those
\* of the sessions attached earlier under the name that nobody can clean up
\* any more (s.orphans of them), a listener and a watcher each
PushListeners(s) == (IF s.pushOn THEN 1 ELSE 0) + s.orphans
Watchers(s) == (IF s.watchOn THEN 1 ELSE 0) + s.orphans
Copies(n, x) == [i \in 1..n |-> x]
\* storage.watch: every watcher attached to the key is run with the value
NotifyWatchers(s, q, value) == q \o Copies(Watchers(s), value)

\* ------------------------------------------------------- authority (part_009)
ServiceClient == "svc"   \* generateClientId() of the one service instance

\* the name the store is registered under and the configuration the service
\* is given: the defaults, config = {}
StoreName == "store"
DefaultConfig == [storageStrategy |-> "unset", serializer |-> "unset"]
\* configurations with an area or a serializer of their own (none with a
\* storageVersion: the versioned item is not modelled)
Configs ==
    {[storageStrategy |-> a, serializer |-> z] :
        a \in {"unset", "local", "session"}, z \in {"unset", "custom"}}

\* createStorageKey: `${area}:wxt-zustand:${storeName}:state`
createStorageKey(storeName, area) == <<area, "wxt-zustand", storeName, "state">>

\* saveStateToStorage: serializer(state), then storage.setItem; the default
\* serializer is JSON.stringify, the watcher's deserializer JSON.parse
serializer(state) == JsonRoundTrip(state)
deserializer(text) == text
\* a serializer of the configuration: some other text made from the whole state
customSerializer(state) == [custom |-> state]

\* config.storageStrategy || 'local' and config.serializer || JSON.stringify
areaOf(config) ==
    IF config.storageStrategy = "unset" THEN "local" ELSE config.storageStrategy
serialized(config, state) ==
    IF config.serializer = "unset" THEN serializer(state) ELSE customSerializer(state)

\* the key the service writes and the peripheral contexts watch
ServiceKey == createStorageKey(StoreName, areaOf(DefaultConfig))

\* broadcastStateChange -> saveWithBackoff -> saveStateToStorage, up to the
\* storage.setItem call of the first attempt, which it leaves in flight;
\* nothing when no client is tracked
BroadcastAlways(q, cl, state, config) ==
    Append(q, [key |-> createStorageKey(StoreName, areaOf(config)),
               value |-> serialized(config, state), attempt |-> 0])
broadcastStateChange(q, cl, state, config) ==
    IF cl = {} THEN q
    ELSE Append(q, [key |-> createStorageKey(StoreName, areaOf(config)),
                    value |-> serialized(config, state), attempt |-> 0])

\* the store.subscribe callback of the service: every new state object of the
\* canonical store is broadcast; it exists from the registration of the
\* service to its _cleanup
OnCanonChange(newState) ==
    writeQ' = IF registry.listening
              THEN broadcastStateChange(writeQ, clients, newState, DefaultConfig)
              ELSE writeQ

\* trackClient(storeName, clientId): the id is added to the client set of the
\* name when the name has one
trackClient(reg, cl, c) == IF reg.store THEN cl \cup {c} ELSE cl

\* registerService(store, config): registerStore, trackClient, store.subscribe
registerService(reg) == [reg EXCEPT !.store = TRUE, !.listening = TRUE]
Register ==
    /\ ~registered
    /\ registered' = TRUE
    /\ registry' = registerService(registry)
    /\ clients' = trackClient(registry', clients, ServiceClient)
    /\ UNCHANGED <<canon, stored, backups, boot, utilVars, writeQ, periVars, obs>>

\* application code of the authoritative context changes the canonical store
AuthSet(d) ==
    /\ obs.nMut < MaxMut
    /\ canon' = [k \in DOMAIN d \cup FnKeysOf(canon) |->
                    IF k \in DOMAIN d THEN d[k] ELSE canon[k]]
    /\ OnCanonChange(canon')
    /\ obs' = [obs EXCEPT !.nMut = @ + 1, !.canonOp = "local"]
    /\ UNCHANGED <<registered, clients, stored, backups, boot, registry, utilVars, periVars>>

\* the type check of dispatch
AcceptAnyType(action) == TRUE
isSyncAction(action) == action.type = SYNC

\* how the promise of dispatch settles: the catch around setState only logs,
\* so it resolves with the action whatever setState did
DispatchRethrows(action, threw) ==
    IF threw = "no" THEN [resolved |-> TRUE, value |-> action]
    ELSE [resolved |-> FALSE, value |-> [error |-> "update failed"]]
dispatchSettles(action, threw) == [resolved |-> TRUE, value |-> action]

\* what store.setState(merged, true) can do inside dispatch: return; throw
\* without having changed the state; or throw out of a listener after the state
\* was replaced, the listener having been subscribed before the service's
\* own (whose broadcast is then skipped) or after it
Throws == {"no", "unchanged", "beforeBroadcast", "afterBroadcast"}

\* dispatch(action) of the service, for the call of context p that arrives next
ServiceDispatch(p, threw) ==
    /\ registered
    /\ dispatchQ[p] # <<>>
    /\ LET action == Head(dispatchQ[p])
           ended == [obs EXCEPT
                       !.nRet = @ + 1,
                       !.lastRet = [from |-> p, given |-> action, threw |-> threw,
                                    settled |-> dispatchSettles(action, threw)],
                       !.nThrown = IF threw = "no" THEN @ ELSE @ + 1]
       IN
         IF ~isSyncAction(action)
         THEN /\ threw = "no"
              /\ UNCHANGED <<canon, writeQ>>
              /\ obs' = ended
         ELSE IF threw = "unchanged"
         THEN /\ UNCHANGED <<canon, writeQ>>
              /\ obs' = ended
         ELSE /\ canon' = mergeStatePreservingFunctions(canon, action.state)
              /\ IF threw = "beforeBroadcast" THEN UNCHANGED writeQ
                 ELSE OnCanonChange(canon')
              /\ obs' = [ended EXCEPT !.applied = Append(@, [from |-> p,
                                                             state |-> action.state]),
                                      !.canonOp = "dispatch"]
    /\ dispatchQ' = [dispatchQ EXCEPT ![p] = Tail(@)]
    /\ UNCHANGED <<registered, clients, stored, backups, boot, registry, utilVars, local, readiness, conn, awaiting,
                   sess, inbox, reloadCalled>>

\* dispatch on a store whose setState returns
AuthDispatch(p) == ServiceDispatch(p, "no")

\* code of context p calls dispatch of the remote service itself
Envelopes ==
    {[type |-> t, state |-> d] : t \in {SYNC, "INVALID_TYPE"},
                                d \in Snapshots \cup {SnapF}}
CallDispatch(p, action) ==
    /\ obs.nSent < MaxEnvelopes
    /\ dispatchQ' = [dispatchQ EXCEPT ![p] = Append(@, action)]
    /\ obs' = [obs EXCEPT !.nSent = @ + 1]
    /\ UNCHANGED <<authVars, utilVars, local, readiness, conn, awaiting, sess, inbox,
                   reloadCalled>>

\* how the promise of broadcastStateChange settles once its save has ended,
\* saveThrew saying whether saveWithBackoff threw: the catch around the save
\* only logs
BroadcastRejects(saveThrew) == [resolved |-> ~saveThrew]
broadcastSettles(saveThrew) == [resolved |-> TRUE]

\* the storage completes the oldest setItem (calls of one context complete in
\* the order they were made): the value is stored and every context watching
\* the key at that moment is notified of it. Only the value under the service's
\* key is kept; a write to another key completes and leaves it alone
WriteDone ==
    /\ writeQ # <<>>
    /\ writeQ' = Tail(writeQ)
    /\ IF Head(writeQ).key = ServiceKey
       THEN /\ stored' = Head(writeQ).value
            /\ inbox' = [p \in DOMAIN inbox |->
                            NotifyWatchers(sess[p], inbox[p], Head(writeQ).value)]
       ELSE UNCHANGED <<stored, inbox>>
    /\ obs' = [obs EXCEPT !.lastSave = [failed |-> FALSE,
                                        settled |-> broadcastSettles(FALSE)]]
    /\ UNCHANGED <<canon, registered, clients, backups, boot, registry, utilVars, local, readiness,
                   conn, awaiting, sess, dispatchQ, reloadCalled>>

\* saveStateToStorage when storage.setItem rejects: whether it throws to
\* saveWithBackoff (its catch logs the error and nothing else)
SaveRethrows(setItemRejected) == setItemRejected
saveStateToStorageThrows(setItemRejected) == FALSE

\* saveWithBackoff after its saveStateFn call has ended: the writes in flight
\* once w, the oldest, is off the queue; another attempt is made when the call
\* threw and retries are left
saveWithBackoff(q, w, threw) ==
    IF threw /\ w.attempt < SaveRetries
    THEN Append(Tail(q), [w EXCEPT !.attempt = @ + 1])
    ELSE Tail(q)

\* the storage rejects the oldest setItem
WriteFail ==
    /\ writeQ # <<>>
    /\ obs.faults < MaxFaults
    /\ writeQ' = saveWithBackoff(writeQ, Head(writeQ), saveStateToStorageThrows(TRUE))
    /\ obs' = [obs EXCEPT !.faults = @ + 1,
                          !.lastSave = [failed |-> TRUE,
                                        settled |-> broadcastSettles(TRUE)]]
    /\ UNCHANGED <<canon, registered, clients, stored, backups, boot, registry, utilVars, periVars>>

\* code of the authoritative context calls trackClient, untrackClient (with
\* the service's own id that is what the service's _cleanup does) and
\* broadcastStateChange itself
ClientIds == {ServiceClient, "client1"}
TrackClient(c) ==
    /\ clients' = trackClient(registry, clients, c)
    /\ UNCHANGED <<canon, registered, stored, backups, boot, registry, utilVars, writeQ, periVars, obs>>
UntrackClient(c) ==
    /\ clients' = clients \ {c}
    /\ UNCHANGED <<canon, registered, stored, backups, boot, registry, utilVars, writeQ, periVars, obs>>
Broadcast(state, config) ==
    /\ obs.nBroadcast < MaxBroadcasts
    /\ writeQ' = broadcastStateChange(writeQ, clients, state, config)
    /\ obs' = [obs EXCEPT !.nBroadcast = @ + 1,
                          !.lastCall = [state |-> state, config |-> config]]
    /\ UNCHANGED <<canon, registered, clients, stored, backups, boot, registry, utilVars, periVars>>

\* a second store name the registries can hold entries of
OtherStore == "other"
StoreNames == {StoreName, OtherStore}

\* getStore(name) # undefined, and connectedClients.get(name)
hasStore(reg, name) == IF name = StoreName THEN reg.store ELSE reg.other.store
clientsOf(reg, cl, name) == IF name = StoreName THEN cl ELSE reg.other.clients

\* registerStore(name, store) called by code of the authority itself
registerStore(reg, name) ==
    IF name = StoreName THEN [reg EXCEPT !.store = TRUE]
    ELSE [reg EXCEPT !.other.store = TRUE]
RegisterStore(name) ==
    /\ registry' = registerStore(registry, name)
    /\ UNCHANGED <<canon, registered, clients, stored, backups, boot, utilVars,
                   writeQ, periVars, obs>>

\* unregisterStore(name): the entries of the name are deleted from
\* storeRegistry and connectedClients; its watcher, when storageWatchers has
\* one, is unwatched and deleted
KeepClients(cl, name) == cl
clientsAfterUnregister(cl, name) == IF name = StoreName THEN {} ELSE cl
unregisterStore(reg, name) ==
    [reg EXCEPT
        !.store = IF name = StoreName THEN FALSE ELSE @,
        !.other = IF name = OtherStore
                  THEN [store |-> FALSE, clients |-> {}] ELSE @,
        !.watchers = @ \ {name},
        !.unwatched = IF name \in reg.watchers THEN @ + 1 ELSE @]
UnregisterStore(name) ==
    /\ obs.nUnreg < MaxUnregs
    /\ registry' = unregisterStore(registry, name)
    /\ clients' = clientsAfterUnregister(clients, name)
    /\ obs' = [obs EXCEPT !.nUnreg = @ + 1,
                          !.lastUnreg = [name |-> name, nMut |-> obs.nMut,
                              clients |-> clientsOf(registry, clients, name)]]
    /\ UNCHANGED <<canon, registered, stored, backups, boot, utilVars, writeQ,
                   periVars>>

\* trackClient and untrackClient called with the second store name
TrackOtherClient(c) ==
    /\ registry' = [registry EXCEPT !.other.clients =
                       IF registry.other.store THEN @ \cup {c} ELSE @]
    /\ UNCHANGED <<canon, registered, clients, stored, backups, boot, utilVars,
                   writeQ, periVars, obs>>
UntrackOtherClient(c) ==
    /\ registry' = [registry EXCEPT !.other.clients = @ \ {c}]
    /\ UNCHANGED <<canon, registered, clients, stored, backups, boot, utilVars,
                   writeQ, periVars, obs>>

\* _cleanup of the service: unsubscribe(), untrackClient(storeName, clientId)
ServiceCleanup ==
    /\ registered
    /\ registry' = [registry EXCEPT !.listening = FALSE]
    /\ clients' = clients \ {ServiceClient}
    /\ UNCHANGED <<canon, registered, stored, backups, boot, utilVars, writeQ,
                   periVars, obs>>

\* --------------------------------- storage: loading (part_003, background/init.ts)
\* the storage call of a load that fails, if any
StorageFaults == {"none", "getValue", "getItem", "setItem", "remove"}

\* `${item.key}:corrupted-${Date.now()}`
backupKey(itemKey, now) == [item |-> itemKey, suffix |-> "corrupted", at |-> now]

\* handleCorruptedState(item, error) on an entry holding raw, bk being the
\* backup entries: the entry and the backups it leaves. The raw value is read,
\* written under the backup key when there is one, and the item is removed;
\* the first of these calls that fails ends the recovery (the catch logs)
RemoveDespiteFailure(raw, bk, fault, now) ==
    [stored |-> None,
     backups |-> IF raw # None /\ fault \notin {"getItem", "setItem"}
                 THEN bk \cup {[key |-> backupKey(ServiceKey, now), value |-> raw]}
                 ELSE bk]
RemoveWithoutBackup(raw, bk, fault, now) ==
    [stored |-> IF fault \in {"getItem", "remove"} THEN raw ELSE None,
     backups |-> bk]
handleCorruptedState(raw, bk, fault, now) ==
    IF fault = "getItem" \/ (raw # None /\ fault = "setItem")
    THEN [stored |-> raw, backups |-> bk]
    ELSE [stored |-> IF fault = "remove" THEN raw ELSE None,
          backups |-> IF raw # None
                      THEN {b \in bk : b.key # backupKey(ServiceKey, now)}
                           \cup {[key |-> backupKey(ServiceKey, now), value |-> raw]}
                      ELSE bk]

\* item.getValue(): whether it throws, and what it returns of an entry that
\* reads back (the fallback of the item when there is no entry)
getValueThrows(raw, fault) == raw = Corrupt \/ fault = "getValue"
getValue(raw, fallback) == IF raw = None THEN fallback ELSE raw

\* how the promise of loadStateFromVersionedItem settles, readThrew saying
\* whether item.getValue() threw: the catch recovers and returns undefined
LoadRethrows(readThrew) == [resolved |-> ~readThrew]
loadSettles(readThrew) == [resolved |-> TRUE]

\* loadStateFromVersionedItem(item): the value it returns (None for
\* undefined), the entry and the backups it leaves
loadStateFromVersionedItem(raw, bk, fallback, fault, now) ==
    IF getValueThrows(raw, fault)
    THEN [value |-> None,
          stored |-> handleCorruptedState(raw, bk, fault, now).stored,
          backups |-> handleCorruptedState(raw, bk, fault, now).backups]
    ELSE [value |-> getValue(raw, fallback), stored |-> raw, backups |-> bk]

\* loadStateFromStorage(storageKey, deserializer): the value it returns; a
\* failing getItem and a throwing deserializer are caught and logged
loadStateFromStorage(raw, fault) ==
    IF fault = "getItem" \/ raw = None \/ raw = Corrupt THEN None
    ELSE deserializer(raw)

\* the faults a load of the entry holding raw can meet: the calls of the
\* recovery are made only when the read threw, the backup write only for a
\* value that is there
FaultsOf(raw, versioned) ==
    IF ~versioned THEN {"none", "getItem"}
    ELSE IF raw = Corrupt THEN StorageFaults \ {"getValue"}
    ELSE {"none", "getValue"}

\* the record kept of a loadStateFromVersionedItem call
LoadRecord(raw, bk, fallback, fault, now) ==
    [raw |-> raw, before |-> bk, fallback |-> fallback, fault |-> fault,
     at |-> now, threw |-> getValueThrows(raw, fault),
     value |-> loadStateFromVersionedItem(raw, bk, fallback, fault, now).value,
     settled |-> loadSettles(getValueThrows(raw, fault))]

\* code of the authoritative context loads the versioned item of the store
LoadVersioned(fallback, fault) ==
    /\ obs.nLoad < MaxLoads
    /\ fault \in FaultsOf(stored, TRUE)
    /\ fault # "none" => obs.faults < MaxFaults
    /\ stored' = loadStateFromVersionedItem(stored, backups, fallback, fault,
                                            obs.nLoad).stored
    /\ backups' = loadStateFromVersionedItem(stored, backups, fallback, fault,
                                             obs.nLoad).backups
    /\ obs' = [obs EXCEPT !.nLoad = @ + 1,
                          !.faults = IF fault = "none" THEN @ ELSE @ + 1,
                          !.lastLoad = LoadRecord(stored, backups, fallback,
                                                  fault, obs.nLoad)]
    /\ UNCHANGED <<canon, registered, clients, writeQ, boot, registry, utilVars, periVars>>

\* the options of initWXTZustandStoreBackend that decide how it loads
BootOptions ==
    {[versioned |-> FALSE, fallback |-> None],
     [versioned |-> TRUE, fallback |-> None],
     [versioned |-> TRUE, fallback |-> SnapY]}

\* initWXTZustandStoreBackend up to its await: the current state is read
\* and the load is started
InitStart(options) ==
    /\ boot.pc = "idle"
    /\ boot' = [pc |-> "loading", current |-> canon, options |-> options]
    /\ UNCHANGED <<canon, registered, clients, stored, backups, registry, writeQ,
                   periVars, utilVars, obs>>

\* whether the preload block throws into its catch with this loaded value:
\* shallowDiff throws unless both of its arguments are objects
preloadThrows(preloaded) == preloaded # None /\ ~IsStateObject(preloaded)

\* the state the preload block leaves in the store, current being the state
\* read before the load and now the state of the store when the load ends
ReplaceAlways(current, now, preloaded) ==
    IF preloaded = None \/ preloadThrows(preloaded) THEN now
    ELSE mergeStatePreservingFunctions(current, preloaded)
preloadedState(current, now, preloaded) ==
    IF preloaded = None \/ preloadThrows(preloaded) THEN now
    ELSE IF shallowDiff(current, preloaded) = <<>> THEN now
    ELSE mergeStatePreservingFunctions(current, preloaded)

\* how the promise of initWXTZustandStoreBackend settles: both catch blocks
\* only log, and the store it was given is returned
InitRejects(storeName, preloadThrew, registerThrew) ==
    [resolved |-> ~preloadThrew /\ ~registerThrew, value |-> storeName]
initSettles(storeName, preloadThrew, registerThrew) ==
    [resolved |-> TRUE, value |-> storeName]

\* whether the service is registered after the second try block, registerThrew
\* saying whether registerService threw
registeredAfter(wasRegistered, registerThrew) == wasRegistered \/ ~registerThrew

\* the rest of initWXTZustandStoreBackend, run when the load has ended: the
\* loaded state is applied when it differs, then the service is registered
InitFinish(fault, registerThrew) ==
    /\ boot.pc = "loading"
    /\ fault \in FaultsOf(stored, boot.options.versioned)
    /\ (fault # "none" \/ registerThrew) => obs.faults < MaxFaults
    /\ LET load == IF boot.options.versioned
                   THEN loadStateFromVersionedItem(stored, backups,
                            boot.options.fallback, fault, obs.nLoad)
                   ELSE [value |-> loadStateFromStorage(stored, fault),
                         stored |-> stored, backups |-> backups]
           next == preloadedState(boot.current, canon, load.value)
       IN /\ stored' = load.stored
          /\ backups' = load.backups
          /\ canon' = next
          /\ IF next # canon THEN OnCanonChange(next) ELSE UNCHANGED writeQ
          /\ registered' = registeredAfter(registered, registerThrew)
          /\ registry' = IF registerThrew THEN registry
                         ELSE registerService(registry)
          /\ clients' = IF registerThrew THEN clients
                        ELSE trackClient(registry', clients, ServiceClient)
          /\ boot' = [boot EXCEPT !.pc = "done"]
          /\ obs' = [obs EXCEPT
                !.nLoad = @ + 1,
                !.faults = IF fault # "none" \/ registerThrew THEN @ + 1 ELSE @,
                !.canonOp = IF next # canon THEN "preload" ELSE @,
                !.lastLoad = IF boot.options.versioned
                             THEN LoadRecord(stored, backups,
                                     boot.options.fallback, fault, obs.nLoad)
                             ELSE @,
                !.lastInit = [current |-> boot.current, before |-> canon,
                              raw |-> stored, fault |-> fault,
                              nMut |-> obs.nMut,
                              preloaded |-> load.value,
                              preloadThrew |-> preloadThrows(load.value),
                              registerThrew |-> registerThrew,
                              settled |-> initSettles(StoreName,
                                  preloadThrows(load.value), registerThrew)]]
    /\ UNCHANGED <<periVars, utilVars>>

\* ------------------------------------- diff utilities (shallowDiff, shallowPatch)
\* a caller diffs oldObj against newObj
Diff ==
    /\ diffOut = None
    /\ diffOut' = [op |-> "diff",
                   threw |-> shallowDiffThrows(diffIn.old, diffIn.new),
                   diff |-> IF shallowDiffThrows(diffIn.old, diffIn.new)
                            THEN <<>>
                            ELSE shallowDiff(diffIn.old, diffIn.new),
                   result |-> None]
    /\ UNCHANGED <<authVars, periVars, obs, diffIn>>

\* a caller diffs oldObj against newObj and patches oldObj with the result
DiffThenPatch ==
    /\ diffOut = None
    /\ ~shallowDiffThrows(diffIn.old, diffIn.new)
    /\ diffOut' = [op |-> "roundTrip",
                   diff |-> shallowDiff(diffIn.old, diffIn.new),
                   result |-> shallowPatch(diffIn.old,
                                           shallowDiff(diffIn.old, diffIn.new))]
    /\ UNCHANGED <<authVars, periVars, obs, diffIn>>

\* a caller diffs oldObj against itself
DiffSelf ==
    /\ diffOut = None
    /\ ~shallowDiffThrows(diffIn.old, diffIn.old)
    /\ diffOut' = [op |-> "self", diff |-> shallowDiff(diffIn.old, diffIn.old),
                   result |-> diffIn.old]
    /\ UNCHANGED <<authVars, periVars, obs, diffIn>>

\* ---------------------------------------------- peripheral: Push path (part_005)
\* localCallback: the envelope service.dispatch is called with
localCallback(state) == [type |-> SYNC, state |-> stripFunctionProps(state)]

\* store.setState(newState, true) in context p: the listeners run inside the
\* call; q is the dispatch queue and s the session as they are at the call.
\* The store keeps its listeners in a set: subscribe(localCallback) adds the
\* one callback of the session, every unsubscribe handle deletes it
NotifyPush(p, s, q, newState) ==
    q \o Copies(PushListeners(s), localCallback(newState))
CountPush(p, s, o) ==
    [o EXCEPT !.nDispatch[p] = @ + PushListeners(s)]
\* the same for every session attached to the store, ss being the sessions
NotifyStore(store, ss, qs, newState) ==
    [e \in DOMAIN qs |->
        IF StoreOf(e) = store THEN NotifyPush(e, ss[e], qs[e], newState)
        ELSE qs[e]]
CountStore(store, ss, o) ==
    [o EXCEPT !.nDispatch = [e \in DOMAIN @ |->
        IF StoreOf(e) = store THEN @[e] + PushListeners(ss[e]) ELSE @[e]]]

\* setupBidirectionalSync: store.subscribe(localCallback) and the storage watcher
setupBidirectionalSync(owned) ==
    [exists |-> TRUE, pushOn |-> TRUE, watchOn |-> TRUE, cleaned |-> FALSE,
     handle |-> owned, unsubs |-> 0, unwatches |-> 0, orphans |-> 0]

\* the session of a name after wxtZustandStoreReady has called
\* setupBidirectionalSync for it: the handles are dropped, so a session s that
\* was attached before stays attached beside the new one
attachedByReady(s) ==
    [setupBidirectionalSync(FALSE) EXCEPT
        !.orphans = IF s.exists THEN PushListeners(s) ELSE 0]

\* the storage writes in flight once localCallback has run in a session s for
\* the state it was given: it dispatches to the service and writes nothing
PushWritesStorage(q, s, state) ==
    IF s.pushOn
    THEN Append(q, [key |-> ServiceKey, value |-> serializer(state), attempt |-> 0])
    ELSE q
localCallbackWrites(q, s, state) == q

\* application code of context p changes its store to the data d
AppSet(p, d) ==
    /\ obs.nMut < MaxMut
    /\ LET newState == [k \in DOMAIN d \cup FnKeysOf(local[p]) |->
                           IF k \in DOMAIN d THEN d[k] ELSE local[p][k]] IN
         /\ local' = [local EXCEPT ![p] = newState]
         /\ dispatchQ' = [dispatchQ EXCEPT
                            ![p] = NotifyPush(p, sess[p], @, newState)]
         /\ writeQ' = localCallbackWrites(writeQ, sess[p], newState)
         /\ obs' = [CountPush(p, sess[p], obs) EXCEPT !.nMut = @ + 1]
    /\ UNCHANGED <<canon, registered, clients, stored, backups, boot, registry, utilVars, readiness,
                   conn, awaiting, sess, inbox, reloadCalled>>

\* the dispatch call of p that arrives next is rejected: the .catch handler
\* reloads on a lost extension context and logs anything else; it leaves the
\* session s of the caller as it is
UnsubscribeOnError(s) == [s EXCEPT !.pushOn = FALSE]
dispatchCatch(s) == s
DispatchFail(p, kind) ==
    /\ dispatchQ[p] # <<>>
    /\ obs.faults < MaxFaults \/ ~registered
    /\ dispatchQ' = [dispatchQ EXCEPT ![p] = Tail(@)]
    /\ reloadCalled' = [reloadCalled EXCEPT ![p] = @ \/ kind = "fatal"]
    /\ sess' = [sess EXCEPT ![p] = dispatchCatch(@)]
    /\ obs' = [obs EXCEPT !.faults = IF registered THEN @ + 1 ELSE @,
                          !.reloads = IF kind = "fatal" THEN Bump(@, p) ELSE @,
                          !.dispatchErrs[p] = Append(@, kind)]
    /\ UNCHANGED <<authVars, utilVars, local, readiness, conn, awaiting, inbox>>

\* ------------------------------------- peripheral: readiness (part_004, part_006)
\* getStoreReadiness(storeName, store): the entry of that name in the record
\* of that store
ReadinessOfStore(reg, e) ==
    IF \E o \in DOMAIN reg : StoreOf(o) = StoreOf(e) /\ reg[o].st # "none"
    THEN reg[CHOOSE o \in DOMAIN reg : StoreOf(o) = StoreOf(e) /\ reg[o].st # "none"]
    ELSE reg[e]
getStoreReadiness(reg, e) == reg[e]

StartConnect(p, who) ==
    /\ readiness' = [readiness EXCEPT
                       ![p] = [st |-> "pending", by |-> who, err |-> None]]
    /\ conn' = [conn EXCEPT ![p] = [st |-> "calling", attempt |-> 0, val |-> None]]

ReadyCallStartingAnew(p, maxCalls, anew) ==
    /\ obs.nReady[p] < maxCalls
    /\ IF ~anew
       THEN /\ UNCHANGED <<readiness, conn>>
            /\ obs' = [obs EXCEPT !.nReady = Bump(@, p)]
       ELSE /\ StartConnect(p, "ready")
            /\ obs' = [obs EXCEPT !.nReady = Bump(@, p), !.nConnect = Bump(@, p)]
    /\ awaiting' = [awaiting EXCEPT ![p] = @ + 1]
    /\ UNCHANGED <<authVars, utilVars, local, sess, inbox, dispatchQ, reloadCalled>>
\* the cache is not consulted while the first initialisation is under way
ReadyCallIgnoringPending(p, maxCalls) ==
    ReadyCallStartingAnew(p, maxCalls, readiness[p].st \in {"none", "pending"})
\* a failed initialisation is started again by the next call
ReadyCallRetryingFailed(p, maxCalls) ==
    ReadyCallStartingAnew(p, maxCalls, readiness[p].st \in {"none", "rejected"})

\* wxtZustandStoreReady up to its await: an existing entry is awaited, otherwise
\* the readiness promise is created (its fetch started) and cached
ReadyCall(p, maxCalls) ==
    /\ obs.nReady[p] < maxCalls
    /\ IF getStoreReadiness(readiness, p).st # "none"
       THEN /\ UNCHANGED <<readiness, conn>>
            /\ obs' = [obs EXCEPT !.nReady = Bump(@, p)]
       ELSE /\ StartConnect(p, "ready")
            /\ obs' = [obs EXCEPT !.nReady = Bump(@, p), !.nConnect = Bump(@, p)]
    /\ awaiting' = [awaiting EXCEPT ![p] = @ + 1]
    /\ UNCHANGED <<authVars, utilVars, local, sess, inbox, dispatchQ, reloadCalled>>

\* syncInitialStateFromBackground up to its await, on the same registry
SyncInitCall(p) ==
    /\ obs.nSyncInit[p] < MaxCalls
    /\ IF getStoreReadiness(readiness, p).st # "none"
       THEN /\ UNCHANGED <<readiness, conn>>
            /\ obs' = [obs EXCEPT !.nSyncInit = Bump(@, p)]
       ELSE /\ StartConnect(p, "syncInitial")
            /\ obs' = [obs EXCEPT !.nSyncInit = Bump(@, p), !.nConnect = Bump(@, p)]
    /\ UNCHANGED <<authVars, utilVars, local, awaiting, sess, inbox, dispatchQ, reloadCalled>>

\* what fetchInitialState returns: store.getState()
fetchInitialState(state) == state

\* fetchInitialState of the service, for the pending call of peripheral p; the
\* returned state crosses the messaging channel as JSON
ServeFetch(p) ==
    /\ registered
    /\ conn[p].st = "calling"
    /\ clients' = trackClient(registry, clients, ServiceClient)
    /\ conn' = [conn EXCEPT ![p] = [@ EXCEPT !.st = "reply",
                                             !.val = JsonRoundTrip(fetchInitialState(canon))]]
    /\ obs' = [obs EXCEPT !.servedAt = [@ EXCEPT ![p] =
                  [op |-> obs.canonOp, nApplied |-> Len(obs.applied)]]]
    /\ UNCHANGED <<canon, registered, stored, backups, boot, registry, utilVars, writeQ, local, readiness, awaiting,
                   sess, inbox, dispatchQ, reloadCalled>>

\* isExtensionContextInvalidated(err): the message of the error says so
NeverInvalidated(err) == FALSE
isExtensionContextInvalidated(err) == err.kind = "fatal"

\* the delay after the failed attempt number attempt
LinearBackoff(baseMs, attempt) == baseMs * (attempt + 1)
backoff(baseMs, attempt) == baseMs * 2 ^ attempt

\* throw err: the error caught in this iteration, errs being the errors caught
\* so far
RethrowFirst(errs) == errs[1]
rethrown(errs) == errs[Len(errs)]

\* fetchInitialState calls the fetcher of the entry has made: one per iteration
FetchCalls(p) == IF conn[p].st = "idle" THEN 0 ELSE conn[p].attempt + 1

\* one fetchInitialState attempt of connectAndFetchInitialState fails: reload
\* and re-raise on a lost context, re-raise when the retries are used up,
\* otherwise wait baseMs * 2^attempt and call again
FetchFail(p, kind) ==
    /\ conn[p].st = "calling"
    /\ IF kind = "fatal" THEN obs.faults < MaxFaults ELSE ~registered
    /\ LET err == [kind |-> kind, attempt |-> conn[p].attempt]
           errs == Append(obs.fetchErrs[p], err)
           fatal == isExtensionContextInvalidated(err)
           caught == [obs EXCEPT !.faults = IF kind = "fatal" THEN @ + 1 ELSE @,
                                 !.fetchErrs = [@ EXCEPT ![p] = errs]]
       IN
         IF fatal \/ conn[p].attempt >= MaxRetries
         THEN /\ readiness' = [readiness EXCEPT
                                 ![p] = [@ EXCEPT !.st = "rejected",
                                                  !.err = rethrown(errs)]]
              /\ conn' = [conn EXCEPT ![p] = [@ EXCEPT !.st = "done"]]
              /\ reloadCalled' = [reloadCalled EXCEPT ![StoreOf(p)] = @ \/ fatal]
              /\ obs' = [caught EXCEPT
                            !.reloads = IF fatal THEN Bump(@, StoreOf(p)) ELSE @]
         ELSE /\ conn' = [conn EXCEPT ![p] = [@ EXCEPT !.attempt = @ + 1]]
              /\ obs' = [caught EXCEPT
                            !.waits = [@ EXCEPT ![p] =
                                Append(@, backoff(BaseMs, conn[p].attempt))]]
              /\ UNCHANGED <<readiness, reloadCalled>>
    /\ UNCHANGED <<authVars, utilVars, local, awaiting, sess, inbox, dispatchQ>>

\* the fetch returns in context p and the readiness promise runs to its end:
\* wxtZustandStoreReady merges the snapshot in and attaches the sync,
\* syncInitialStateFromBackground replaces the state by the snapshot
RecvFetch(p) ==
    /\ conn[p].st = "reply"
    /\ LET store == StoreOf(p)
           initialState == conn[p].val
           byReady == readiness[p].by = "ready"
           newState == IF byReady
                       THEN mergeStatePreservingFunctions(local[store], initialState)
                       ELSE initialState
       IN
         /\ local' = [local EXCEPT ![store] = newState]
         /\ dispatchQ' = NotifyStore(store, sess, dispatchQ, newState)
         /\ sess' = [sess EXCEPT
                       ![p] = IF byReady THEN attachedByReady(@) ELSE @]
         /\ obs' = [CountStore(store, sess, obs) EXCEPT
                       !.initSnap = [@ EXCEPT ![p] = initialState],
                       !.nSetup = IF byReady THEN Bump(@, p) ELSE @]
    /\ readiness' = [readiness EXCEPT ![p] = [@ EXCEPT !.st = "fulfilled"]]
    /\ conn' = [conn EXCEPT ![p] = [@ EXCEPT !.st = "done"]]
    /\ UNCHANGED <<authVars, utilVars, awaiting, inbox, reloadCalled>>

\* cleanupStoreReadiness(store, storeName): the cached entry of the name is
\* deleted (here once its promise has settled and nothing awaits it)
CleanupStoreReadiness(p) ==
    /\ readiness[p].st \in {"fulfilled", "rejected"}
    /\ awaiting[p] = 0
    /\ obs.nReady[p] < MaxCalls
    /\ readiness' = [readiness EXCEPT ![p] = NoEntry]
    /\ UNCHANGED <<authVars, utilVars, local, conn, awaiting, sess, inbox,
                   dispatchQ, reloadCalled, obs>>

\* a wxtZustandStoreReady call resumes after its await and returns the store
ReadyReturn(p) ==
    /\ awaiting[p] > 0
    /\ readiness[p].st = "fulfilled"
    /\ awaiting' = [awaiting EXCEPT ![p] = @ - 1]
    /\ obs' = [obs EXCEPT !.okReturns = Bump(@, p)]
    /\ UNCHANGED <<authVars, utilVars, local, readiness, conn, sess, inbox, dispatchQ,
                   reloadCalled>>

\* a wxtZustandStoreReady call resumes after its await with the rejection
ReadyThrow(p) ==
    /\ awaiting[p] > 0
    /\ readiness[p].st = "rejected"
    /\ awaiting' = [awaiting EXCEPT ![p] = @ - 1]
    /\ obs' = [obs EXCEPT !.thrown = [@ EXCEPT ![p] = @ \cup {readiness[p].err}]]
    /\ UNCHANGED <<authVars, utilVars, local, readiness, conn, sess, inbox, dispatchQ,
                   reloadCalled>>

\* ------------------------------------ peripheral: Pull path and cleanup (part_005)
\* cleanup(): nothing once cleaned, otherwise unsubscribeLocal and unwatchRemote
CleanupWithoutFlag(s) ==
    [s EXCEPT !.cleaned = TRUE, !.pushOn = FALSE, !.watchOn = FALSE,
              !.unsubs = @ + 1, !.unwatches = @ + 1]
cleanupSession(s) ==
    IF s.cleaned THEN s
    ELSE [s EXCEPT !.cleaned = TRUE, !.pushOn = FALSE, !.watchOn = FALSE,
                   !.unsubs = @ + 1, !.unwatches = @ + 1]

\* the value the callback of createStorageWatcher passes on for the raw value
\* the storage reports: undefined (None) when there is none or the
\* deserializer throws on it
watched(raw) == IF raw \in {None, Corrupt} THEN None ELSE deserializer(raw)

\* onRemote(newValue) on a store in state curr: whether the value is applied
\* (it is not when it is undefined or the shallow diff is empty; an error
\* thrown by shallowDiff is caught and ignored), and the state afterwards
ApplyUnlessAbsent(curr, newValue) == newValue # None
onRemoteApplies(curr, newValue) ==
    /\ newValue # None
    /\ \/ shallowDiffThrows(curr, newValue)
       \/ shallowDiff(curr, newValue) # <<>>
onRemoteState(curr, newValue) ==
    IF onRemoteApplies(curr, newValue)
    THEN mergeStatePreservingFunctions(curr, newValue)
    ELSE curr

\* unsubscribeLocal() of onRemote, before it sets the state
KeepListener(s) == s
onRemoteDetach(s) == [s EXCEPT !.pushOn = FALSE]

\* the session after onRemote applied a value: detached, then whatever the
\* store's listeners did while store.setState notified them (reenter: a
\* listener of the application called cleanup()), then subscribed again
onRemoteSession(s, reenter) ==
    LET notified == IF reenter THEN cleanupSession(onRemoteDetach(s))
                    ELSE onRemoteDetach(s)
    IN  [notified EXCEPT !.pushOn = TRUE]

\* the storage-watch callback of context p for the notification that arrives
\* next; a context that has unwatched gets no callback
Deliver(p, reenter) ==
    /\ inbox[p] # <<>>
    /\ inbox' = [inbox EXCEPT ![p] = Tail(@)]
    /\ reenter => sess[p].handle /\ obs.cleanups[p] < MaxCleanups
    /\ LET newValue == watched(Head(inbox[p])) IN
         IF sess[p].watchOn /\ onRemoteApplies(local[p], newValue)
         THEN /\ local' = [local EXCEPT ![p] = onRemoteState(@, newValue)]
              /\ dispatchQ' = [dispatchQ EXCEPT ![p] =
                    NotifyPush(p, onRemoteDetach(sess[p]), @, local'[p])]
              /\ sess' = [sess EXCEPT ![p] = onRemoteSession(@, reenter)]
              /\ obs' = [CountPush(p, onRemoteDetach(sess[p]), obs) EXCEPT
                            !.nPull = Bump(@, p),
                            !.cleanups = IF reenter THEN Bump(@, p) ELSE @]
         ELSE /\ ~reenter
              /\ UNCHANGED <<local, sess, dispatchQ, obs>>
    /\ UNCHANGED <<authVars, utilVars, readiness, conn, awaiting, reloadCalled>>

\* the same callback on a store that has a listener of the application which
\* answers a new state by setting the data d: it runs inside store.setState
\* of onRemote, while localCallback is unsubscribed
DeliverReacting(p, d) ==
    /\ inbox[p] # <<>>
    /\ obs.nMut < MaxMut
    /\ sess[p].watchOn
    /\ onRemoteApplies(local[p], watched(Head(inbox[p])))
    /\ inbox' = [inbox EXCEPT ![p] = Tail(@)]
    /\ LET pulled == onRemoteState(local[p], watched(Head(inbox[p])))
           detached == onRemoteDetach(sess[p])
           reacted == [k \in DOMAIN d \cup FnKeysOf(pulled) |->
                          IF k \in DOMAIN d THEN d[k] ELSE pulled[k]]
       IN /\ local' = [local EXCEPT ![p] = reacted]
          /\ dispatchQ' = [dispatchQ EXCEPT ![p] =
                NotifyPush(p, detached, NotifyPush(p, detached, @, pulled),
                           reacted)]
          /\ sess' = [sess EXCEPT ![p] = onRemoteSession(@, FALSE)]
          /\ obs' = [CountPush(p, detached, CountPush(p, detached, obs)) EXCEPT
                        !.nPull = Bump(@, p), !.nMut = @ + 1]
    /\ UNCHANGED <<authVars, utilVars, readiness, conn, awaiting, reloadCalled>>

\* code outside the library writes the storage key: a text that parses to
\* null or to a number, or one that does not parse
ForeignTexts == {Null, NonObject, Corrupt}
ForeignWrite(raw) ==
    /\ obs.nForeign < MaxForeign
    /\ stored' = raw
    /\ obs' = [obs EXCEPT !.nForeign = @ + 1]
    /\ inbox' = [p \in DOMAIN inbox |->
                    NotifyWatchers(sess[p], inbox[p], raw)]
    /\ UNCHANGED <<canon, registered, clients, writeQ, backups, boot, registry, utilVars, local,
                   readiness, conn, awaiting, sess, dispatchQ, reloadCalled>>

\* clearStoreFromStorage(storeName, area): the entry is removed and every
\* context watching the key is told that there is no value any more
ClearStore ==
    /\ stored # None
    /\ stored' = None
    /\ inbox' = [p \in DOMAIN inbox |->
                    NotifyWatchers(sess[p], inbox[p], None)]
    /\ UNCHANGED <<canon, registered, clients, writeQ, backups, boot, registry, utilVars, local,
                   readiness, conn, awaiting, sess, dispatchQ, reloadCalled, obs>>

\* application code calls setupBidirectionalSync itself and keeps the handles
DirectSetup(p) ==
    /\ ~sess[p].exists
    /\ sess' = [sess EXCEPT ![p] = setupBidirectionalSync(TRUE)]
    /\ UNCHANGED <<authVars, utilVars, local, readiness, conn, awaiting, inbox, dispatchQ,
                   reloadCalled, obs>>

\* application code calls cleanup() of the session it holds
Cleanup(p) ==
    /\ sess[p].handle
    /\ obs.cleanups[p] < MaxCleanups
    /\ sess' = [sess EXCEPT ![p] = cleanupSession(@)]
    /\ obs' = [obs EXCEPT !.cleanups = Bump(@, p)]
    /\ UNCHANGED <<authVars, utilVars, local, readiness, conn, awaiting, inbox, dispatchQ,
                   reloadCalled>>

\* application code calls the unsubscribeLocal handle the session returned:
\* the function store.subscribe returned first, which deletes localCallback
\* from the listeners of the store whenever it is called
UnsubscribeLocal(p) ==
    /\ sess[p].handle
    /\ obs.handleCalls[p] < MaxCleanups
    /\ sess' = [sess EXCEPT ![p] = [@ EXCEPT !.pushOn = FALSE]]
    /\ obs' = [obs EXCEPT !.handleCalls = Bump(@, p)]
    /\ UNCHANGED <<authVars, utilVars, local, readiness, conn, awaiting, inbox, dispatchQ,
                   reloadCalled>>

\* ------------------------------------------------------------ specifications
\* the state once the authority has registered its service
InitSys ==
    /\ canon = InitCanon
    /\ registered = TRUE
    /\ clients = {ServiceClient}
    /\ stored = None
    /\ backups = {}
    /\ boot = NotBooted
    /\ registry = InitRegistry(registered)
    /\ diffIn = NoDiff
    /\ diffOut = None
    /\ writeQ = <<>>
    /\ local = [p \in Periph |-> InitLocal(p)]
    /\ readiness = [p \in Periph |-> NoEntry]
    /\ conn = [p \in Periph |-> Idle]
    /\ awaiting = [p \in Periph |-> 0]
    /\ sess = [p \in Periph |-> NoSession]
    /\ inbox = [p \in Periph |-> <<>>]
    /\ dispatchQ = [p \in Periph |-> <<>>]
    /\ reloadCalled = [p \in Periph |-> FALSE]
    /\ obs = InitObs

\* the first wxtZustandStoreReady call of a context
ReadyFirstCall(p) ==
    /\ readiness[p].st = "none"
    /\ ReadyCall(p, MaxCalls)

\* the whole system with a registered authority and a storage that works:
\* each peripheral gets ready once; Push, Pull and persistence
Next ==
    \/ \E d \in Snapshots : AuthSet(d)
    \/ \E p \in Periph : AuthDispatch(p)
    \/ WriteDone
    \/ \E p \in Periph, d \in Snapshots : AppSet(p, d)
    \/ \E p \in Periph : ReadyFirstCall(p)
    \/ \E p \in Periph : ServeFetch(p)
    \/ \E p \in Periph : RecvFetch(p)
    \/ \E p \in Periph : ReadyReturn(p)
    \/ \E p \in Periph : Deliver(p, FALSE)

Spec == InitSys /\ [][Next]_vars

\* the system once every peripheral is ready and nothing has changed yet, and
\* from there on with dispatch calls and storage writes that can fail
ReadyEntry == [st |-> "fulfilled", by |-> "ready", err |-> None]
InitAttached ==
    /\ canon = InitCanon
    /\ registered = TRUE
    /\ clients = {ServiceClient}
    /\ stored = None
    /\ backups = {}
    /\ boot = NotBooted
    /\ registry = InitRegistry(registered)
    /\ diffIn = NoDiff
    /\ diffOut = None
    /\ writeQ = <<>>
    /\ local = [p \in Periph |-> InitLocal(p)]
    /\ readiness = [p \in Periph |-> ReadyEntry]
    /\ conn = [p \in Periph |-> [st |-> "done", attempt |-> 0, val |-> Snap0]]
    /\ awaiting = [p \in Periph |-> 0]
    /\ sess = [p \in Periph |-> setupBidirectionalSync(FALSE)]
    /\ inbox = [p \in Periph |-> <<>>]
    /\ dispatchQ = [p \in Periph |-> <<>>]
    /\ reloadCalled = [p \in Periph |-> FALSE]
    /\ obs = [InitObs EXCEPT
                !.nReady = [p \in Periph |-> 1],
                !.nConnect = [p \in Periph |-> 1],
                !.nSetup = [p \in Periph |-> 1],
                !.okReturns = [p \in Periph |-> 1],
                !.initSnap = [p \in Periph |-> Snap0],
                !.servedAt = [p \in Periph |-> [op |-> "init", nApplied |-> 0]]]

NextFaults ==
    \/ \E d \in Snapshots : AuthSet(d)
    \/ \E p \in Periph : AuthDispatch(p)
    \/ WriteDone
    \/ WriteFail
    \/ \E p \in Periph, d \in Snapshots : AppSet(p, d)
    \/ \E p \in Periph, kind \in {"transient", "fatal"} : DispatchFail(p, kind)
    \/ \E p \in Periph : Deliver(p, FALSE)

SpecFaults == InitAttached /\ [][NextFaults]_vars

\* the Pull path of the peripherals once they are ready: values written by the
\* authority, the peripherals' own changes coming back, and a cleared entry
NextPull ==
    \/ \E d \in Snapshots : AuthSet(d)
    \/ \E p \in Periph : AuthDispatch(p)
    \/ WriteDone
    \/ ClearStore
    \/ \E p \in Periph, d \in Snapshots : AppSet(p, d)
    \/ \E p \in Periph : Deliver(p, FALSE)

SpecPull == InitAttached /\ [][NextPull]_vars

\* one peripheral context and its readiness cache, from before the authority
\* registers: both entry points, retries, failures
ReadyPeriph == {"p1"}

NextReady ==
    \/ Register
    \/ \E d \in Snapshots : AuthSet(d)
    \/ \E p \in ReadyPeriph : ReadyCall(p, MaxCalls)
    \/ \E p \in ReadyPeriph : SyncInitCall(p)
    \/ \E p \in ReadyPeriph : ServeFetch(p)
    \/ \E p \in ReadyPeriph, kind \in {"transient", "fatal"} : FetchFail(p, kind)
    \/ \E p \in ReadyPeriph : RecvFetch(p)
    \/ \E p \in ReadyPeriph : ReadyReturn(p)
    \/ \E p \in ReadyPeriph : ReadyThrow(p)

SpecReady == Init /\ [][NextReady]_vars

\* one peripheral context whose application attaches a sync session itself
\* and holds its handles
NextSession ==
    \/ \E d \in Snapshots : AuthSet(d)
    \/ \E p \in ReadyPeriph : AuthDispatch(p)
    \/ WriteDone
    \/ \E p \in ReadyPeriph, d \in Snapshots : AppSet(p, d)
    \/ \E p \in ReadyPeriph : DirectSetup(p)
    \/ \E p \in ReadyPeriph : Cleanup(p)
    \/ \E p \in ReadyPeriph, reenter \in BOOLEAN : Deliver(p, reenter)

SpecSession == InitSys /\ [][NextSession]_vars

\* the client registry and broadcastStateChange, called by code of the
\* authoritative context before and after the service is registered
NextBroadcast ==
    \/ Register
    \/ \E c \in ClientIds : TrackClient(c)
    \/ \E c \in ClientIds : UntrackClient(c)
    \/ \E state \in Snapshots \cup {InitCanon}, config \in Configs :
          Broadcast(state, config)
    \/ WriteDone

SpecBroadcast == Init /\ [][NextBroadcast]_vars

\* the authority with a storage that can reject its writes, serving dispatch
\* calls and the initial-state fetch of a peripheral context
NextOutage ==
    \/ \E d \in Snapshots : AuthSet(d)
    \/ \E p \in ReadyPeriph, d \in Snapshots :
          CallDispatch(p, [type |-> SYNC, state |-> d])
    \/ \E p \in ReadyPeriph : AuthDispatch(p)
    \/ WriteDone
    \/ WriteFail
    \/ \E p \in ReadyPeriph : ReadyFirstCall(p)
    \/ \E p \in ReadyPeriph : ServeFetch(p)
    \/ \E p \in ReadyPeriph : RecvFetch(p)

SpecOutage == InitSys /\ [][NextOutage]_vars

\* the service of the authority called with any envelope, on a store whose
\* setState can throw
NextDispatch ==
    \/ \E d \in Snapshots : AuthSet(d)
    \/ \E p \in ReadyPeriph, action \in Envelopes : CallDispatch(p, action)
    \/ \E p \in ReadyPeriph, threw \in Throws : ServiceDispatch(p, threw)
    \/ WriteDone

SpecDispatch == InitSys /\ [][NextDispatch]_vars

\* one peripheral context that gets its one store ready under two names; the
\* authority registers the services of both names in one step
InitNames ==
    /\ canon = InitCanon
    /\ registered = FALSE
    /\ clients = {}
    /\ stored = None
    /\ backups = {}
    /\ boot = NotBooted
    /\ registry = InitRegistry(registered)
    /\ diffIn = NoDiff
    /\ diffOut = None
    /\ writeQ = <<>>
    /\ local = [p \in {"p1"} |-> InitLocal(p)]
    /\ readiness = [e \in Names |-> NoEntry]
    /\ conn = [e \in Names |-> Idle]
    /\ awaiting = [e \in Names |-> 0]
    /\ sess = [e \in Names |-> NoSession]
    /\ inbox = [e \in Names |-> <<>>]
    /\ dispatchQ = [e \in Names |-> <<>>]
    /\ reloadCalled = [p \in {"p1"} |-> FALSE]
    /\ obs = InitObsOf(Names)

NextNames ==
    \/ Register
    \/ \E e \in Names : ReadyCall(e, MaxCalls)
    \/ \E e \in Names : ServeFetch(e)
    \/ \E e \in Names, kind \in {"transient", "fatal"} : FetchFail(e, kind)
    \/ \E e \in Names : RecvFetch(e)
    \/ \E e \in Names : ReadyReturn(e)
    \/ \E e \in Names : ReadyThrow(e)

SpecNames == InitNames /\ [][NextNames]_vars

\* the authoritative context from before initWXTZustandStoreBackend is called,
\* over what the storage can hold then and with a store that has function
\* members or none; one peripheral asks for the initial state
InitStores == {InitCanon, Snap0}
InitPayloads == {None, Snap0, SnapX, Corrupt, NonObject}

InitBoot ==
    /\ canon \in InitStores
    /\ registered = FALSE
    /\ clients = {}
    /\ stored \in InitPayloads
    /\ backups = {}
    /\ boot = NotBooted
    /\ registry = InitRegistry(registered)
    /\ diffIn = NoDiff
    /\ diffOut = None
    /\ writeQ = <<>>
    /\ local = [p \in Periph |-> InitLocal(p)]
    /\ readiness = [p \in Periph |-> NoEntry]
    /\ conn = [p \in Periph |-> Idle]
    /\ awaiting = [p \in Periph |-> 0]
    /\ sess = [p \in Periph |-> NoSession]
    /\ inbox = [p \in Periph |-> <<>>]
    /\ dispatchQ = [p \in Periph |-> <<>>]
    /\ reloadCalled = [p \in Periph |-> FALSE]
    /\ obs = InitObs

NextInit ==
    \/ \E options \in BootOptions : InitStart(options)
    \/ \E fault \in StorageFaults, registerThrew \in BOOLEAN :
           InitFinish(fault, registerThrew)
    \/ \E fallback \in {None, SnapY}, fault \in StorageFaults :
           LoadVersioned(fallback, fault)
    \/ \E d \in Snapshots : AuthSet(d)
    \/ \E p \in ReadyPeriph : ReadyFirstCall(p)
    \/ \E p \in ReadyPeriph : ServeFetch(p)

SpecInit == InitBoot /\ [][NextInit]_vars

\* the diff utilities on their own, over flat records of at most two keys
\* whose fields hold numbers, undefined, null, NaN or a nested object
FieldValues == {Num(1), Num(2), Undefined, Null, NaN, Ref(1)}
FlatRecords ==
    UNION {[keys -> FieldValues] : keys \in SUBSET {"a", "b"}}

\* what shallowDiff is called with: a flat record, null, or a string
DiffArguments == FlatRecords \cup {Null, NonObject}

InitDiff ==
    /\ canon = InitCanon
    /\ registered = FALSE
    /\ clients = {}
    /\ stored = None
    /\ backups = {}
    /\ boot = NotBooted
    /\ registry = InitRegistry(registered)
    /\ writeQ = <<>>
    /\ local = [p \in Periph |-> InitLocal(p)]
    /\ readiness = [p \in Periph |-> NoEntry]
    /\ conn = [p \in Periph |-> Idle]
    /\ awaiting = [p \in Periph |-> 0]
    /\ sess = [p \in Periph |-> NoSession]
    /\ inbox = [p \in Periph |-> <<>>]
    /\ dispatchQ = [p \in Periph |-> <<>>]
    /\ reloadCalled = [p \in Periph |-> FALSE]
    /\ obs = InitObs
    /\ diffIn \in [old : DiffArguments, new : DiffArguments]
    /\ diffOut = None

NextDiff ==
    \/ Diff
    \/ DiffThenPatch
    \/ DiffSelf

SpecDiff == InitDiff /\ [][NextDiff]_vars

\* the Pull path of ready peripherals whose stores have a listener of the
\* application that sets the state again, with a storage key that other code
\* can write
NextLoop ==
    \/ \E d \in {SnapX, SnapY} : AuthSet(d)
    \/ \E p \in Periph : AuthDispatch(p)
    \/ WriteDone
    \/ \E raw \in ForeignTexts : ForeignWrite(raw)
    \/ \E p \in Periph, d \in {SnapX} : AppSet(p, d)
    \/ \E p \in Periph : Deliver(p, FALSE)
    \/ \E p \in Periph, d \in {SnapY} : DeliverReacting(p, d)

SpecLoop == InitAttached /\ [][NextLoop]_vars

\* a peripheral context that gets its store ready, drops the cached entry
\* with cleanupStoreReadiness and gets the store ready again; its changes are
\* dispatched and written (what the watchers do with the values is left out)
NextReadyAgain ==
    \/ \E p \in ReadyPeriph : ReadyCall(p, MaxCalls)
    \/ \E p \in ReadyPeriph : ServeFetch(p)
    \/ \E p \in ReadyPeriph : RecvFetch(p)
    \/ \E p \in ReadyPeriph : ReadyReturn(p)
    \/ \E p \in ReadyPeriph : CleanupStoreReadiness(p)
    \/ \E p \in ReadyPeriph, d \in Snapshots : AppSet(p, d)
    \/ \E p \in ReadyPeriph : AuthDispatch(p)
    \/ WriteDone

SpecReadyAgain == InitSys /\ [][NextReadyAgain]_vars

\* one peripheral context whose application attaches a sync session itself
\* and calls the unsubscribeLocal handle it was given
NextHandle ==
    \/ \E d \in Snapshots : AuthSet(d)
    \/ \E p \in ReadyPeriph : AuthDispatch(p)
    \/ WriteDone
    \/ \E p \in ReadyPeriph, d \in Snapshots : AppSet(p, d)
    \/ \E p \in ReadyPeriph : DirectSetup(p)
    \/ \E p \in ReadyPeriph : UnsubscribeLocal(p)
    \/ \E p \in ReadyPeriph : Deliver(p, FALSE)

SpecHandle == InitSys /\ [][NextHandle]_vars

\* the registries of the authority: its code registers and unregisters store
\* names, tracks and untracks clients and cleans the service up, while the
\* canonical store changes and peripheral contexts ask for the initial state
NextRegistry ==
    \/ Register
    \/ \E name \in StoreNames : RegisterStore(name)
    \/ \E name \in StoreNames : UnregisterStore(name)
    \/ \E c \in ClientIds : TrackClient(c)
    \/ \E c \in ClientIds : UntrackClient(c)
    \/ TrackOtherClient("client1")
    \/ UntrackOtherClient("client1")
    \/ ServiceCleanup
    \/ \E d \in {SnapX, SnapY} : AuthSet(d)
    \/ \E p \in ReadyPeriph : ReadyFirstCall(p)
    \/ \E p \in ReadyPeriph : ServeFetch(p)

SpecRegistry == Init /\ [][NextRegistry]_vars

\* ------------------------------------------------------------------- claims
DataOf(state) == [k \in DataKeysOf(state) |-> state[k]]
LastOf(q) == q[Len(q)]

\* C1: when only wxtZustandStoreReady is called for a (store, name), however
\* often and whether or not the first call has finished, the initial-state
\* fetch has been started exactly once, the sync controller has been attached at
\* most once, and exactly once as soon as the readiness promise is fulfilled
C1_SingleInitialisation ==
    \A p \in Periph :
        (obs.nReady[p] >= 1 /\ obs.nSyncInit[p] = 0) =>
            /\ obs.nConnect[p] = 1
            /\ obs.nSetup[p] = (IF readiness[p].st = "fulfilled" THEN 1 ELSE 0)
            /\ sess[p].exists = (readiness[p].st = "fulfilled")

C1_Witness ==
    /\ obs.nReady["p1"] = MaxCalls
    /\ obs.nSyncInit["p1"] = 0
    /\ obs.okReturns["p1"] = MaxCalls
    /\ sess["p1"].pushOn

\* C2: a wxtZustandStoreReady call that has resolved means that the initial
\* snapshot was applied and that the Push listener and the storage watcher
\* are attached (no session is ever cleaned up in these runs)
C2_ResolvedMeansSynced ==
    \A p \in Periph :
        obs.okReturns[p] > 0 =>
            /\ obs.initSnap[p] # None
            /\ sess[p].pushOn
            /\ sess[p].watchOn

C4_FullStatePush ==
    [][\A p \in Periph :
          obs'.nDispatch[p] > obs.nDispatch[p] =>
              LET sent == LastOf(dispatchQ'[p]) IN
                /\ Len(dispatchQ'[p]) = Len(dispatchQ[p]) + 1
                /\ sent.type = SYNC
                /\ DOMAIN sent.state = {k \in DOMAIN local'[p] : ~IsFn(local'[p][k])}
                /\ \A k \in DOMAIN sent.state :
                      ~IsFn(sent.state[k]) /\ sent.state[k] = local'[p][k]]_vars

C4_Witness ==
    /\ dispatchQ["p1"] # <<>>
    /\ FnKeysOf(local["p1"]) # {}
    /\ DOMAIN local["p1"] = {"a", "f"}

\* C5: when the authority has applied the pushes of two peripherals, X and
\* then Y, nothing else has changed the canonical store since, and no storage
\* write is outstanding, the canonical data and the stored value are both Y
C5_LastPushWins ==
    (/\ Len(obs.applied) >= 2
     /\ obs.applied[Len(obs.applied) - 1].from # LastOf(obs.applied).from
     /\ obs.canonOp = "dispatch"
     /\ writeQ = <<>>) =>
        /\ DataOf(canon) = LastOf(obs.applied).state
        /\ stored = LastOf(obs.applied).state

\* C6: when no dispatch, storage write, watch notification or fetch is
\* outstanding, every peripheral store with sync attached holds the canonical
\* data, and what is stored is the canonical data
Quiescent ==
    /\ writeQ = <<>>
    /\ \A p \in Periph :
          /\ dispatchQ[p] = <<>>
          /\ inbox[p] = <<>>
          /\ conn[p].st \in {"idle", "done"}

C6_EventuallyConsistent ==
    Quiescent =>
        /\ \A p \in Periph :
              (sess[p].pushOn /\ sess[p].watchOn) => DataOf(local[p]) = DataOf(canon)
        /\ stored # None => stored = DataOf(canon)

\* C7: a session whose cleanup() has been invoked has no Push listener in the
\* store's listener set
C7_CleanupIsTerminal ==
    \A p \in Periph : sess[p].cleaned => ~sess[p].pushOn

\* C8: once cleanup() has been called on a session, whether once or more
\* often, from the application or from a listener during a remote
\* application, its unsubscribe and its unwatch have each been invoked once
C8_CleanupIdempotent ==
    \A p \in Periph :
        obs.cleanups[p] >= 1 =>
            /\ sess[p].unsubs = 1
            /\ sess[p].unwatches = 1
            /\ sess[p].cleaned

C8_Witness ==
    /\ obs.cleanups["p1"] = MaxCleanups
    /\ obs.nPull["p1"] >= 1

\* the push the authority had applied last when it served the fetch of p
PushBefore(p) == obs.applied[obs.servedAt[p].nApplied].state

\* C9 as stated: a fetch of wxtZustandStoreReady served after a push X was
\* applied, with no dispatch after it, returns X, and the store's data is X
\* when the readiness promise resolves
C9_AsStated ==
    [][\A p \in Periph :
          (/\ obs.initSnap[p] = None /\ obs'.initSnap[p] # None
           /\ readiness[p].by = "ready"
           /\ obs.servedAt[p].nApplied >= 1) =>
              /\ obs'.initSnap[p] = PushBefore(p)
              /\ DataOf(local'[p]) = PushBefore(p)]_vars

\* C9 amended: the same, when the push X was the last transition of the
\* canonical store before the fetch was served
C9_FetchSeesLastPush ==
    [][\A p \in Periph :
          (/\ obs.initSnap[p] = None /\ obs'.initSnap[p] # None
           /\ readiness[p].by = "ready"
           /\ obs.servedAt[p].nApplied >= 1
           /\ obs.servedAt[p].op = "dispatch") =>
              /\ obs'.initSnap[p] = PushBefore(p)
              /\ DataOf(local'[p]) = PushBefore(p)]_vars

C9_Witness ==
    /\ obs.okReturns["p1"] = 1
    /\ obs.servedAt["p1"] = [op |-> "dispatch", nApplied |-> 1]
    /\ obs.applied[1] = [from |-> "p2", state |-> SnapY]
    /\ DataOf(local["p1"]) = SnapY

\* C10: a rejected readiness entry stays as it is: no call has resolved, no sync
\* is attached, the one fetch of the entry is the only one started, every call
\* that has failed failed with the entry's error, and no step changes the entry
\* or starts a fetch
C10_FailureIsCached ==
    /\ [](\A p \in Periph :
            readiness[p].st = "rejected" =>
                /\ obs.thrown[p] \subseteq {readiness[p].err}
                /\ obs.okReturns[p] = 0
                /\ obs.nConnect[p] = 1
                /\ obs.nSetup[p] = 0
                /\ ~sess[p].exists)
    /\ [][\A p \in Periph :
            readiness[p].st = "rejected" =>
                /\ readiness'[p] = readiness[p]
                /\ conn'[p] = conn[p]
                /\ obs'.nConnect[p] = obs.nConnect[p]
                /\ obs'.okReturns[p] = obs.okReturns[p]]_vars

C10_Witness ==
    /\ readiness["p1"].st = "rejected"
    /\ readiness["p1"].err = [kind |-> "transient", attempt |-> MaxRetries]
    /\ obs.nReady["p1"] = MaxCalls
    /\ awaiting["p1"] = 0
    /\ obs.thrown["p1"] = {readiness["p1"].err}

\* C11: the readiness of two names on one store instance is kept apart: each
\* name that was asked for has had its own fetch started, exactly once, and its
\* own sync attached once it is fulfilled, and a step that changes the cache
\* entry or the fetch of one name leaves those of the other name as they are
C11_NamesIsolated ==
    /\ [](\A e \in Names :
            obs.nReady[e] >= 1 =>
                /\ readiness[e].st # "none"
                /\ obs.nConnect[e] = 1
                /\ obs.nSetup[e] = (IF readiness[e].st = "fulfilled" THEN 1 ELSE 0)
                /\ sess[e].exists = (readiness[e].st = "fulfilled"))
    /\ [][\A e \in Names, o \in Names :
            (o # e /\ (readiness'[e] # readiness[e] \/ conn'[e] # conn[e])) =>
                /\ readiness'[o] = readiness[o]
                /\ conn'[o] = conn[o]
                /\ sess'[o] = sess[o]]_vars

C11_Witness ==
    /\ readiness["p1"].st = "rejected"
    /\ readiness[OtherName].st = "fulfilled"
    /\ obs.nConnect["p1"] + obs.nConnect[OtherName] = 2
    /\ obs.nSetup[OtherName] = 1
    /\ sess[OtherName].pushOn
    /\ obs.okReturns[OtherName] >= 1

\* the dispatch call that ends in this step, if one does
DispatchEnds == obs'.nRet = obs.nRet + 1
Given == Head(dispatchQ[obs'.lastRet.from])

\* C12: a dispatch call with an envelope of another type than
\* '__WXT_ZUSTAND_SYNC__' changes neither the canonical state nor what is
\* written or to be written to storage, and resolves with the envelope given
C12_InvalidTypeIgnored ==
    [][(DispatchEnds /\ Given.type # SYNC) =>
          /\ canon' = canon
          /\ writeQ' = writeQ
          /\ stored' = stored
          /\ obs'.applied = obs.applied
          /\ obs'.lastRet.settled = [resolved |-> TRUE, value |-> Given]]_vars

C12_Witness ==
    /\ obs.nRet = 2
    /\ obs.lastRet.given = [type |-> "INVALID_TYPE", state |-> SnapY]
    /\ Len(obs.applied) = 1
    /\ DataOf(canon) = SnapX

\* C13: a dispatch call with a valid envelope on a store whose setState
\* returns leaves the canonical state with every function member it had,
\* unchanged, and apart from those with exactly the members of action.state
C13_WholeStateReplaced ==
    [][(DispatchEnds /\ Given.type = SYNC /\ obs'.lastRet.threw = "no") =>
          /\ \A k \in FnKeysOf(canon) : k \in DOMAIN canon' /\ canon'[k] = canon[k]
          /\ DataKeysOf(canon') = DOMAIN Given.state \ FnKeysOf(canon)
          /\ \A k \in DataKeysOf(canon') : canon'[k] = Given.state[k]]_vars

C13_Witness ==
    /\ obs.nRet >= 2
    /\ obs.lastRet.given = [type |-> SYNC, state |-> SnapY]
    /\ obs.lastRet.threw = "no"
    /\ canon = [a |-> Num(2), f |-> Fn(0)]

\* C14: every dispatch call, whatever the envelope and whether or not setState
\* throws, resolves with the envelope given; and the service goes on serving:
\* whenever a call is waiting, dispatch can process it
C14_DispatchNeverFails ==
    /\ [][DispatchEnds => obs'.lastRet.settled = [resolved |-> TRUE, value |-> Given]]_vars
    /\ [](\A p \in Periph :
            (registered /\ dispatchQ[p] # <<>>) => ENABLED ServiceDispatch(p, "no"))

C14_Witness ==
    /\ obs.nThrown >= 1
    /\ obs.lastRet.threw = "no"
    /\ obs.lastRet.given = [type |-> SYNC, state |-> SnapX]
    /\ obs.applied = <<[from |-> "p1", state |-> SnapX]>>
    /\ DataOf(canon) = SnapX

\* the fetchInitialState call of p that fails in this step, if one does
FetchFails(p) == Len(obs'.fetchErrs[p]) = Len(obs.fetchErrs[p]) + 1

\* C15: a fetchInitialState attempt that fails with the lost-context error,
\* whichever attempt it is, ends the fetcher in that step: reload is called
\* once, no delay is waited, the fetcher fails with that attempt's error; and
\* from then on nothing is called or waited any more
C15_FatalAbortsAtOnce ==
    /\ [][\A p \in ReadyPeriph :
            (FetchFails(p) /\ LastOf(obs'.fetchErrs[p]).kind = "fatal") =>
                /\ conn'[p].st = "done"
                /\ FetchCalls(p)' = FetchCalls(p)
                /\ obs'.waits[p] = obs.waits[p]
                /\ obs'.reloads[p] = obs.reloads[p] + 1
                /\ readiness'[p].st = "rejected"
                /\ readiness'[p].err = LastOf(obs'.fetchErrs[p])]_vars
    /\ [](\A p \in ReadyPeriph :
            (obs.fetchErrs[p] # <<>> /\ LastOf(obs.fetchErrs[p]).kind = "fatal") =>
                /\ obs.reloads[p] = 1
                /\ reloadCalled[p]
                /\ conn[p].st = "done"
                /\ FetchCalls(p) = Len(obs.fetchErrs[p])
                /\ Len(obs.waits[p]) = Len(obs.fetchErrs[p]) - 1
                /\ readiness[p].err = LastOf(obs.fetchErrs[p]))

C15_Witness ==
    /\ readiness["p1"].st = "rejected"
    /\ readiness["p1"].err = [kind |-> "fatal", attempt |-> 2]
    /\ obs.reloads["p1"] = 1
    /\ registered
    /\ obs.thrown["p1"] = {readiness["p1"].err}

\* C16: a fetcher all of whose attempts failed with a transient error has made
\* every attempt it is allowed, has failed with the error of the last one, and
\* has not called reload
C16_LastErrorRaised ==
    \A p \in ReadyPeriph :
        (/\ conn[p].st = "done"
         /\ Len(obs.fetchErrs[p]) = FetchCalls(p)
         /\ \A i \in 1..Len(obs.fetchErrs[p]) : obs.fetchErrs[p][i].kind = "transient") =>
            /\ readiness[p].st = "rejected"
            /\ readiness[p].err = LastOf(obs.fetchErrs[p])
            /\ readiness[p].err.attempt = FetchCalls(p) - 1
            /\ obs.reloads[p] = 0
            /\ ~reloadCalled[p]

C16_Witness ==
    /\ conn["p1"].st = "done"
    /\ Len(obs.fetchErrs["p1"]) = MaxRetries + 1
    /\ readiness["p1"].err.kind = "transient"
    /\ ~reloadCalled["p1"]
    /\ registered

\* the delays waited so far are baseDelay * 2^k after failed attempt k, and
\* one was waited before every call but the first
BackoffDoubles(p) ==
    /\ \A k \in 0..(Len(obs.waits[p]) - 1) : obs.waits[p][k + 1] = BaseMs * 2 ^ k
    /\ conn[p].st = "calling" => Len(obs.waits[p]) = FetchCalls(p) - 1

\* C17 as stated: one connect makes at most 5 fetchInitialState calls, 5 being
\* the configured maximum, and the delays double from the base delay
C17_AsStated ==
    \A p \in ReadyPeriph : FetchCalls(p) <= MaxRetries /\ BackoffDoubles(p)

\* C17 amended: one connect makes at most one call more than the configured
\* number of retries (6 calls for the 5 retries of the default configuration),
\* and the delays double from the base delay
C17_CallsAndBackoff ==
    \A p \in ReadyPeriph : FetchCalls(p) <= MaxRetries + 1 /\ BackoffDoubles(p)

C17_Witness ==
    /\ FetchCalls("p1") = MaxRetries + 1
    /\ conn["p1"].st = "calling"
    /\ obs.waits["p1"] = <<50, 100, 200, 400, 800>>

\* the write a broadcastStateChange call is to make: the text of the state
\* under the key of the store's name and the configured area
WriteOf(call) ==
    [key |-> <<IF call.config.storageStrategy = "unset" THEN "local"
               ELSE call.config.storageStrategy,
               "wxt-zustand", StoreName, "state">>,
     value |-> IF call.config.serializer = "unset" THEN DataOf(call.state)
               ELSE [custom |-> call.state],
     attempt |-> 0]

C19_NoWriteBeforeConnect ==
    (\A p \in Periph : obs.servedAt[p] = None) => (writeQ = <<>> /\ stored = None)

\* the storage rejects a write in this step
WriteFails == obs'.faults = obs.faults + 1 /\ writeQ' # writeQ

\* C20: when the storage rejects a write that was not the last attempt allowed
\* (3 retries after the first), the same state is written again
C20_FailedWriteRetried ==
    [][(WriteFails /\ Head(writeQ).attempt < SaveRetries) =>
          \E i \in 1..Len(writeQ') :
              writeQ'[i] = [Head(writeQ) EXCEPT !.attempt = @ + 1]]_vars

\* C21: a storage write that fails leaves the canonical state and the service
\* as they are and its broadcastStateChange resolved; the service stays
\* registered, a dispatch call that is waiting can be processed, a fetch that is
\* waiting can be served, and a fetch is served with the canonical data
C21_AuthorityStaysAvailable ==
    /\ [][WriteFails =>
            /\ canon' = canon
            /\ registered' = registered
            /\ clients' = clients
            /\ obs'.lastSave.settled.resolved]_vars
    /\ [][\A p \in ReadyPeriph :
            (conn[p].st = "calling" /\ conn'[p].st = "reply") =>
                conn'[p].val = DataOf(canon)]_vars
    /\ [](/\ registered
          /\ obs.lastSave # None => obs.lastSave.settled.resolved
          /\ \A p \in ReadyPeriph :
                /\ dispatchQ[p] # <<>> => ENABLED AuthDispatch(p)
                /\ conn[p].st = "calling" => ENABLED ServeFetch(p))

C21_Witness ==
    /\ obs.faults >= 1
    /\ stored = None
    /\ backups = {}
    /\ boot = NotBooted
    /\ diffIn = NoDiff
    /\ diffOut = None
    /\ writeQ = <<>>
    /\ obs.lastSave.failed
    /\ obs.applied = <<[from |-> "p1", state |-> SnapY]>>
    /\ obs.initSnap["p1"] = SnapY
    /\ DataOf(canon) = SnapY

\* a loadStateFromVersionedItem call ends in this step
VersionedLoadEnds ==
    /\ obs'.nLoad = obs.nLoad + 1
    /\ obs'.lastLoad # None
    /\ obs'.lastLoad.at = obs.nLoad

\* the step backs the payload of the entry up: one more backup entry, under
\* the backup key of this moment, holding what the entry held
BacksUp ==
    /\ backups' = backups \cup {[key |-> backupKey(ServiceKey, obs.nLoad),
                                 value |-> stored]}
    /\ Cardinality(backups') = Cardinality(backups) + 1

\* a read of the item that follows the step yields the default of the item
NextReadYieldsDefault ==
    \A fallback \in {None, SnapY} :
        loadStateFromVersionedItem(stored', backups', fallback, "none",
                                   obs'.nLoad).value = fallback

\* C22 as stated: every load of a versioned item whose read raises returns
\* undefined without raising, writes exactly one backup entry holding the raw
\* payload under the backup key, and removes the item so that a following read
\* yields the default
C22_AsStated ==
    [][(VersionedLoadEnds /\ obs'.lastLoad.threw) =>
          /\ obs'.lastLoad.settled.resolved
          /\ obs'.lastLoad.value = None
          /\ BacksUp
          /\ stored' = None
          /\ NextReadYieldsDefault]_vars

\* C22: a load of a versioned item whose read raises returns undefined without
\* raising and writes at most one backup entry; when the entry holds a payload
\* and the storage calls of the recovery succeed, exactly one backup entry
\* holding that payload is written under the backup key and the item is
\* removed, so that a following read yields the default. A failing raw read or
\* backup write leaves the entry and the backups as they were, a failing
\* removal leaves the entry beside its backup, and an entry without a payload
\* is removed without a backup
C22_CorruptedLoadRecovers ==
    [][(VersionedLoadEnds /\ obs'.lastLoad.threw) =>
          /\ obs'.lastLoad.settled.resolved
          /\ obs'.lastLoad.value = None
          /\ (stored # None /\ obs'.lastLoad.fault \in {"none", "getValue"}) =>
                BacksUp /\ stored' = None /\ NextReadYieldsDefault
          /\ obs'.lastLoad.fault \in {"getItem", "setItem"} =>
                backups' = backups /\ stored' = stored
          /\ obs'.lastLoad.fault = "remove" => BacksUp /\ stored' = stored
          /\ stored = None => backups' = backups /\ stored' = None]_vars

\* a corrupted entry was backed up and removed, and the read that followed
\* returned the fallback of the item
C22_Witness ==
    /\ obs.lastLoad # None
    /\ obs.lastLoad.raw = None
    /\ ~obs.lastLoad.threw
    /\ obs.lastLoad.value = SnapY
    /\ \E b \in backups : b.value = Corrupt
    /\ stored = None

\* the function-valued members of a state, with their identities
FnMembers(state) == [k \in FnKeysOf(state) |-> state[k]]

\* C23: whenever the authority or a peripheral applies an incoming snapshot
\* (valid dispatch, background preload, initial sync, remote value seen by the
\* watcher), the function-valued members of its state afterwards are exactly
\* those it had before, with the same identities. Application code never
\* changes a function member here, so this is: no step changes them
C23_FunctionMembersKept ==
    [][/\ FnMembers(canon') = FnMembers(canon)
       /\ \A store \in DOMAIN local :
              FnMembers(local'[store]) = FnMembers(local[store])]_vars

\* C24: every state snapshot that crosses a context boundary has no
\* function-valued member: the state of every push envelope, the value
\* fetchInitialState returns, and the state the authority hands to a
\* serializer of the configuration
C24_NoFunctionCrossesBoundary ==
    [][/\ \A p \in DOMAIN dispatchQ : \A i \in 1..Len(dispatchQ'[p]) :
              FnKeysOf(dispatchQ'[p][i].state) = {}
       /\ \A p \in DOMAIN conn :
              (conn[p].st = "calling" /\ conn'[p].st = "reply") =>
                  FnKeysOf(fetchInitialState(canon)) = {}
       /\ \A i \in 1..Len(writeQ') :
              "custom" \in DOMAIN writeQ'[i].value =>
                  FnKeysOf(writeQ'[i].value.custom) = {}]_vars

\* code of a peripheral context runs in this step: a store, a readiness entry
\* or a session of one changes, one of them awaits or stops awaiting, a
\* dispatch call is made, or a watcher callback runs
PeripheralActs ==
    \/ local' # local \/ readiness' # readiness \/ sess' # sess
    \/ awaiting' # awaiting \/ reloadCalled' # reloadCalled
    \/ \E p \in DOMAIN dispatchQ : Len(dispatchQ'[p]) > Len(dispatchQ[p])
    \/ \E p \in DOMAIN inbox : Len(inbox'[p]) < Len(inbox[p])

\* code of the authority changes the canonical store in this step: a dispatch
\* call of the service ends, or the application of the authority sets a state
AuthorityApplies ==
    \/ obs'.nRet = obs.nRet + 1
    \/ obs'.nMut = obs.nMut + 1 /\ local' = local

InitEnds == boot.pc = "loading" /\ boot'.pc = "done"

\* the service answers the fetchInitialState call of p in this step
Serves(p) == conn[p].st = "calling" /\ conn'[p].st = "reply"

\* the initialisation has ended with a loaded state that differs from the data
\* the store had when it started, and the application of the authority has
\* set no state since
PreloadedOther ==
    /\ obs.lastInit # None
    /\ IsStateObject(obs.lastInit.preloaded)
    /\ obs.lastInit.preloaded # DataOf(obs.lastInit.current)
    /\ obs.nMut = obs.lastInit.nMut

\* C26 as stated: once initWXTZustandStoreBackend has run and the storage held
\* a state other than the data the store started with, no fetchInitialState is
\* answered with anything but that persisted state (as long as the
\* application of the authority sets no state)
C26_AsStated ==
    [][\A p \in ReadyPeriph :
          (/\ Serves(p)
           /\ obs.lastInit # None
           /\ IsStateObject(obs.lastInit.raw)
           /\ obs.lastInit.raw # DataOf(obs.lastInit.current)
           /\ obs.nMut = obs.lastInit.nMut) =>
              conn'[p].val = obs.lastInit.raw]_vars

\* C26: initWXTZustandStoreBackend registers the service only after its load has
\* ended and the loaded state, if any, has been applied: the service is not
\* registered while the load is pending; the canonical state is replaced only
\* when the load returned a state whose shallow diff against the state read
\* before the load is non-empty, and then by that state merged with the
\* store's functions; and a fetchInitialState call is answered with the loaded
\* state whenever the load returned one that differs from the data the store
\* started with
C26_PreloadBeforeRegister ==
    /\ [](boot.pc = "loading" => ~registered)
    /\ [][InitEnds =>
            /\ canon' # canon =>
                  /\ IsStateObject(obs'.lastInit.preloaded)
                  /\ shallowDiff(boot.current, obs'.lastInit.preloaded) # <<>>
            /\ (/\ IsStateObject(obs'.lastInit.preloaded)
                /\ shallowDiff(boot.current, obs'.lastInit.preloaded) # <<>>) =>
                  canon' = mergeStatePreservingFunctions(boot.current,
                                                         obs'.lastInit.preloaded)]_vars
    /\ [][\A p \in ReadyPeriph :
            (Serves(p) /\ PreloadedOther) =>
                /\ boot.pc = "done"
                /\ conn'[p].val = obs.lastInit.preloaded
                /\ conn'[p].val # DataOf(obs.lastInit.current)]_vars

\* the storage held a state other than the default, the initialisation loaded
\* and applied it, and the fetchInitialState call of a peripheral was answered
\* with it
C26_Witness ==
    /\ conn["p1"].st = "reply"
    /\ PreloadedOther
    /\ obs.lastInit.raw = SnapX
    /\ obs.lastInit.current = InitCanon
    /\ obs.lastInit.fault = "none"
    /\ conn["p1"].val = SnapX
    /\ FnMembers(canon) = FnMembers(InitCanon)

\* the preload of the initialisation that ends in this step failed: the load
\* met a failing storage call or an unreadable payload, or the preload block
\* threw
PreloadFailed ==
    \/ obs'.lastInit.fault # "none"
    \/ obs'.lastInit.raw = Corrupt
    \/ obs'.lastInit.preloadThrew

\* C27: initWXTZustandStoreBackend never rejects and always resolves with the
\* store it was given; a failure while preloading leaves the state of the
\* store unchanged and the service is registered all the same, and a failure
\* while registering does not propagate
C27_InitNeverRejects ==
    [][InitEnds =>
          /\ obs'.lastInit.settled = [resolved |-> TRUE, value |-> StoreName]
          /\ PreloadFailed =>
                /\ canon' = canon
                /\ registered' \/ obs'.lastInit.registerThrew
          /\ ~obs'.lastInit.registerThrew => registered']_vars

\* the persisted payload was not an object, so the preload block threw, and
\* registerService threw as well: the call resolved with the store, whose
\* state is as it was
C27_Witness ==
    /\ boot.pc = "done"
    /\ obs.lastInit.preloadThrew
    /\ obs.lastInit.registerThrew
    /\ obs.lastInit.settled.resolved
    /\ obs.lastInit.settled.value = StoreName
    /\ canon = obs.lastInit.before
    /\ ~registered

\* the storage-watch callback of p runs in this step
WatcherRuns(p) == Len(inbox'[p]) < Len(inbox[p])

\* the value the callback is run with is absent, or its shallow diff against
\* the state of the store is empty
NothingToPull(p) ==
    \/ watched(Head(inbox[p])) = None
    \/ shallowDiff(local[p], watched(Head(inbox[p]))) = <<>>

\* C28: on the Pull path an observed value that is absent, or whose shallow
\* diff against the current local state is empty, leaves the local store
\* untouched: no state is set, no local listener is notified (nothing is
\* dispatched), and the Push listener of the session stays as it is
C28_EmptyPullIgnored ==
    [][\A p \in Periph :
          (WatcherRuns(p) /\ NothingToPull(p)) =>
              /\ local' = local
              /\ obs'.nPull = obs.nPull
              /\ dispatchQ' = dispatchQ
              /\ obs'.nDispatch = obs.nDispatch
              /\ sess' = sess]_vars

\* a peripheral without function members has seen its own change come back
\* from the storage and, after the entry was cleared, the absent value: it has
\* pulled nothing and dispatched once
C28_Witness ==
    /\ obs.applied # <<>>
    /\ LastOf(obs.applied).from = "p2"
    /\ writeQ = <<>>
    /\ stored = None
    /\ inbox["p2"] = <<>>
    /\ obs.nPull["p2"] = 0
    /\ obs.nDispatch["p2"] = 1
    /\ local["p2"] = LastOf(obs.applied).state
    /\ sess["p2"].pushOn

\* deep equality of two flat records as the tests take it (toEqual): every
\* key holds the same value on both sides, a missing key counting as undefined
DeepEqual(x, y) ==
    \A k \in DOMAIN x \cup DOMAIN y : SameValue(Get(x, k), Get(y, k))

\* C29: for any two flat records old and new (a key may hold undefined or be
\* missing on one side), shallowPatch(old, shallowDiff(old, new)) is deep-equal
\* to new and has exactly the keys of new
C29_DiffPatchRoundTrip ==
    (diffOut # None /\ diffOut.op = "roundTrip") =>
        /\ DeepEqual(diffOut.result, diffIn.new)
        /\ DOMAIN diffOut.result = DOMAIN diffIn.new

\* C30: shallowDiff(x, x) is empty for every state object x, whatever its
\* fields hold (nested objects, undefined, null, NaN)
C30_SelfDiffEmpty ==
    (diffOut # None /\ diffOut.op = "self") => diffOut.diff = <<>>

\* C40: corruption recovery never destroys the only copy of a payload: a load
\* whose read raised removes the item only if the entry held no payload or the
\* backup of that payload was written; when the raw read or the backup write
\* fails the item is left in place, and the load still returns undefined
\* without raising
C40_NoPayloadLost ==
    [][(VersionedLoadEnds /\ obs'.lastLoad.threw) =>
          /\ (stored # None /\ stored' = None) =>
                [key |-> backupKey(ServiceKey, obs.nLoad), value |-> stored]
                    \in backups'
          /\ backups \subseteq backups'
          /\ obs'.lastLoad.fault \in {"getItem", "setItem"} =>
                /\ stored' = stored
                /\ obs'.lastLoad.settled.resolved
                /\ obs'.lastLoad.value = None]_vars

\* the backup write of a corrupted entry failed: the entry is still there,
\* nothing was backed up, and the load returned undefined
C40_Witness ==
    /\ obs.lastLoad # None
    /\ obs.lastLoad.raw = Corrupt
    /\ obs.lastLoad.fault = "setItem"
    /\ obs.lastLoad.value = None
    /\ obs.lastLoad.settled.resolved
    /\ stored = Corrupt
    /\ backups = {}
\* C31: shallowDiff(old, new) contains an update, carrying new's value, for
\* exactly the keys of new whose value is not strictly identical to old's, and
\* a removal for exactly the keys of old that new does not have; the updates
\* come first, in new's key order, then the removals, in old's key order; it
\* raises when either argument is not a non-null object
C31_DiffContentAndOrder ==
    (diffOut # None /\ diffOut.op = "diff") =>
        IF ~isValidState(diffIn.old) \/ ~isValidState(diffIn.new)
        THEN diffOut.threw
        ELSE LET d == diffOut.diff
                 upd == {k \in DOMAIN diffIn.new :
                            \/ Get(diffIn.old, k) # diffIn.new[k]
                            \/ diffIn.new[k] = NaN}
                 rem == DOMAIN diffIn.old \ DOMAIN diffIn.new
                 nUpd == Cardinality(upd)
             IN  /\ ~diffOut.threw
                 /\ Len(d) = nUpd + Cardinality(rem)
                 /\ \A i \in 1..nUpd :
                        /\ d[i].change = "updated"
                        /\ d[i].key \in upd
                        /\ d[i].value = diffIn.new[d[i].key]
                 /\ \A i \in (nUpd + 1)..Len(d) :
                        /\ d[i].change = "removed"
                        /\ d[i].key \in rem
                 /\ \A i, j \in 1..Len(d) :
                        (i < j /\ d[i].change = d[j].change) =>
                            KeyPos(d[i].key) < KeyPos(d[j].key)

C31_Witness ==
    /\ diffOut # None /\ diffOut.op = "diff"
    /\ ~diffOut.threw
    /\ Len(diffOut.diff) = 2
    /\ diffOut.diff[1].change = "updated"
    /\ diffOut.diff[2].change = "removed"
\* the dispatch call of the Push path of p that fails in this step, if one does
DispatchFails(p) == Len(obs'.dispatchErrs[p]) = Len(obs.dispatchErrs[p]) + 1
\* application code of p changes the state of its store in this step
AppChanges(p) == obs'.nMut = obs.nMut + 1 /\ local'[p] # local[p]

\* C32: a dispatch failure on the Push path never detaches the Push listener:
\* the failing dispatch leaves the session as it was, a fatal-context error
\* calls reload once and any other error does not, and every local transition
\* after a failed dispatch is dispatched again with the state it led to
C32_FailureKeepsListener ==
    /\ [][\A p \in Periph : DispatchFails(p) =>
            /\ sess'[p] = sess[p]
            /\ sess'[p].pushOn
            /\ obs'.reloads[p] = obs.reloads[p] +
                   (IF LastOf(obs'.dispatchErrs[p]) = "fatal" THEN 1 ELSE 0)]_vars
    /\ [][\A p \in Periph :
            (obs.dispatchErrs[p] # <<>> /\ AppChanges(p)) =>
                /\ obs'.nDispatch[p] = obs.nDispatch[p] + 1
                /\ dispatchQ'[p] = Append(dispatchQ[p], localCallback(local'[p]))]_vars

C32_Witness ==
    /\ obs.dispatchErrs["p2"] = <<"transient">>
    /\ obs.nDispatch["p2"] = 2
    /\ dispatchQ["p2"] = <<localCallback(SnapX)>>
    /\ local["p2"] = SnapX
\* an unregisterStore call is made in this step
Unregisters == obs'.nUnreg = obs.nUnreg + 1

\* C33: unregisterStore(name) removes name from the store registry, the
\* connected-client registry and the watcher registry, calls the unwatch of a
\* watcher it owned once, leaves the entries of every other name as they were
\* and changes nothing for a name that has no entry; while the name has no
\* entry getStore(name) is undefined and no transition of the store that was
\* registered under it puts a storage write in flight
C33_UnregisterRemovesAll ==
    /\ [][Unregisters =>
            LET name == obs'.lastUnreg.name IN
            /\ ~hasStore(registry', name)
            /\ clientsOf(registry', clients', name) = {}
            /\ name \notin registry'.watchers
            /\ registry'.unwatched = registry.unwatched +
                   (IF name \in registry.watchers THEN 1 ELSE 0)
            /\ \A other \in StoreNames \ {name} :
                   /\ hasStore(registry', other) = hasStore(registry, other)
                   /\ clientsOf(registry', clients', other) =
                          clientsOf(registry, clients, other)
                   /\ (other \in registry'.watchers) = (other \in registry.watchers)
            /\ (~hasStore(registry, name) /\ name \notin registry.watchers) =>
                   (registry' = registry /\ clients' = clients)
            /\ UNCHANGED <<canon, registered, stored, writeQ>>]_vars
    /\ [][(~hasStore(registry, StoreName) /\ canon' # canon) =>
             writeQ' = writeQ]_vars

C33_Witness ==
    /\ obs.nUnreg = 1
    /\ obs.lastUnreg.name = StoreName
    /\ obs.lastUnreg.clients = {ServiceClient}
    /\ obs.nMut > obs.lastUnreg.nMut
    /\ registered
    /\ ~hasStore(registry, StoreName)
    /\ registry.listening
    /\ registry.other.clients = {"client1"}
    /\ writeQ = <<>>
    /\ stored = None
\* the fetchInitialState call of the service made for p returns in this step
FetchReturns(p) == conn[p].st = "calling" /\ conn'[p].st = "reply"

\* C34: after any fetchInitialState call has returned, the client id of the
\* service is in the client set of its store name, whatever track, untrack,
\* _cleanup, register and unregister calls came before, and the call returned
\* the canonical state as it was at the call
C34_FetchMarksClient ==
    [][\A p \in ReadyPeriph : FetchReturns(p) =>
            /\ ServiceClient \in clients'
            /\ conn'[p].val = JsonRoundTrip(canon)]_vars
\* C35: no local transition is lost by the loop-prevention window: every
\* change application code makes to the store of a session that is not
\* cleaned up, also one made by another listener of the store while a remote
\* snapshot is being applied, is followed by a dispatch of a state at least as
\* recent as the change
C35_NoTransitionLost ==
    [][\A p \in Periph :
          (AppChanges(p) /\ sess[p].exists /\ ~sess'[p].cleaned) =>
              /\ obs'.nDispatch[p] > obs.nDispatch[p]
              /\ dispatchQ'[p] # <<>>
              /\ LastOf(dispatchQ'[p]) = localCallback(local'[p])]_vars

\* the value the storage-watch callback of p is run with in this step
Delivered(p) == watched(Head(inbox[p]))

\* C36: the Pull path replaces the local state only with a snapshot that is a
\* non-null object: when the watcher delivers anything else (a stored text
\* that parses to null or to a number) the data members of the local store
\* are left as they are
C36_OnlyObjectsPulled ==
    [][\A p \in Periph :
          (WatcherRuns(p) /\ ~isValidState(Delivered(p))) =>
              DataOf(local'[p]) = DataOf(local[p])]_vars

\* C37: echo suppression also holds for stores with actions: when the
\* storage-watch callback of a peripheral whose state has function members is
\* run with a snapshot whose data members are those of the local state, no
\* state is set and no listener is notified
C37_EchoSuppressedWithActions ==
    [][\A p \in Periph :
          (/\ WatcherRuns(p)
           /\ FnKeysOf(local[p]) # {}
           /\ isValidState(Delivered(p))
           /\ Delivered(p) = DataOf(local[p])) =>
              /\ obs'.nPull[p] = obs.nPull[p]
              /\ local'[p] = local[p]]_vars
\* C38: for any sequence of wxtZustandStoreReady and cleanupStoreReadiness
\* calls on a store, at most one Push listener and one storage watcher per
\* name are attached to it at any time, so one local transition produces at
\* most one dispatch per name
C38_OneSessionPerName ==
    /\ [](\A p \in ReadyPeriph :
            PushListeners(sess[p]) <= 1 /\ Watchers(sess[p]) <= 1)
    /\ [][\A p \in ReadyPeriph :
            AppChanges(p) => obs'.nDispatch[p] <= obs.nDispatch[p] + 1]_vars
\* C39: calling the unsubscribeLocal handle of a session at any time after the
\* session was created, also after remote snapshots have been applied,
\* detaches the Push listener that is attached then, and no later local
\* transition is dispatched by the session
C39_HandleDetachesForGood ==
    /\ [][\A p \in ReadyPeriph :
            obs'.handleCalls[p] > obs.handleCalls[p] => ~sess'[p].pushOn]_vars
    /\ [][\A p \in ReadyPeriph :
            (obs.handleCalls[p] > 0 /\ AppChanges(p)) =>
                /\ obs'.nDispatch[p] = obs.nDispatch[p]
                /\ dispatchQ'[p] = dispatchQ[p]]_vars

====
